---- MODULE Spec2Model ----
(***************************************************************************)
(* A model of the fork manager (core/src/bank_forks.rs), of the            *)
(* outstanding-request tracker (core/src/outstanding_requests.rs), of the  *)
(* shred index, the erasure status and the slot meta                       *)
(* (ledger/src/blockstore_meta.rs), of the transmit-shred cache            *)
(* (core/src/broadcast_stage/slot_transmit_shreds_cache.rs), of the window *)
(* service (core/src/window_service.rs) and of the entry-verify worker     *)
(* (ledger/src/entry_verify_service.rs).                                   *)
(***************************************************************************)
EXTENDS Integers, FiniteSets, Sequences, TLC

\* ------------------------------------------------------------------------
\* Bounds
\* ------------------------------------------------------------------------

\* Slots range over 0..MaxSlot.
MaxSlot == 3

Slot == 0..MaxSlot

\* A request expects at most MaxExpected responses.
MaxExpected == 2

\* The tracker is given at most MaxSteps requests and advances of the clock.
MaxSteps == 3

\* Shred indices range over 0..MaxIndex.
MaxIndex == 2

ShredIdx == 0..MaxIndex

\* An erasure set has at most MaxData data shards and as many coding shards.
MaxData == 2

\* The fields of a slot meta count up to MaxCount shreds.
MaxCount == 2

\* A transmit cache is made for at most MaxCapacity slots, and shreds of the
\* slots 0..MaxCapacity are pushed to it.
MaxCapacity == 1

CacheSlot == 0..MaxCapacity

\* The transmit cache is called at most MaxCalls times.
MaxCalls == 2

\* An entry of the transmit cache is given at most MaxBatches batches of data
\* shreds and as many of coding shreds.
MaxBatches == 2

\* The shreds received are of the slots 0..MaxRoot, and so is the root.
MaxRoot == 2

\* A batch of packets holds at most MaxPackets packets.
MaxPackets == 1

\* One run of the duplicate check takes at most MaxDrained shreds.
MaxDrained == 2

\* At most MaxSnapshotCalls calls of add_snapshot, remove_snapshot and
\* load_from_snapshot are made.
MaxSnapshotCalls == 3

\* A channel of the window service is followed up to MaxQueued messages.
MaxQueued == 1

\* One peer's node is called at most MaxNodeCalls times, clock advances
\* included.
MaxNodeCalls == 4

\* recv_window is followed over at most MaxWakeups wake-ups.
MaxWakeups == 2

\* At most MaxDelivered slots wait in the channel of the entry-verify worker.
MaxDelivered == 2

\* ------------------------------------------------------------------------
\* State
\* ------------------------------------------------------------------------

VARIABLES
    banks,           \* BankForks.banks: live slot -> Bank
    working_bank,    \* BankForks.working_bank (an Arc, may outlive its map entry)
    root,            \* BankForks.root
    slots,           \* BankForks.slots: frozen slots seen by the last prune
    snapshot_files,  \* names (slots) of the files in the snapshot directory
    child_bank,      \* a Bank made by Bank::new_from_parent, not yet inserted
    fault,           \* "none", or the panic that ended the process
    persisted,       \* the slots add_snapshot serialized in the last set_root
    op               \* the last call made: its name

VARIABLES
    requests,        \* OutstandingRequests.requests: peer IP -> NodeOutstandingRequests
    now,             \* timestamp(): the clock, in milliseconds
    steps,           \* how many requests were added and clock advances made
    call             \* the last call of the tracker, its arguments and its result

VARIABLES
    index,           \* Index2: the data and the coding ShredIndex2 of a slot
    present,         \* per bitset, the indices whose last set_present was true
    index_call       \* the last call on the index: its name and arguments

VARIABLES
    slot_meta,       \* a SlotMeta
    meta_call        \* the last call on the slot meta and what it returned

VARIABLES
    cache,           \* SlotTransmitShredsCache.cache: slot -> SlotCachedTransmitShreds
    insertion_order, \* SlotTransmitShredsCache.insertion_order
    queue_capacity,  \* insertion_order.capacity()
    capacity,        \* the capacity given to SlotTransmitShredsCache::new
    cache_fault,     \* "none", or the panic that ended a call
    cache_calls,     \* how many calls of push and get were made
    pushed,          \* the slots that were to get an entry, in that order
    cache_call       \* the last call of the cache and its arguments

VARIABLES
    entry,           \* a SlotCachedTransmitShreds, its fields set by its owner
    entry_call       \* the last call on the entry and what it returned

VARIABLES
    filter_call      \* the last call of the shred filter and what it returned

VARIABLES
    dead_slots,      \* the slots set_dead_slot marked in the blockstore
    recv_call        \* the last wake-up of recv_window: what it drained and sent

VARIABLES
    held_shreds,     \* the blockstore: (slot, index) -> payload of the shred held
    duplicate_slots, \* the blockstore: slot -> the duplicate proofs written
    dup_call         \* the last run of the duplicate check: shreds taken, result

VARIABLES
    exit_flag,       \* exit: the AtomicBool shared by the threads of the service
    pc,              \* where each worker thread is in its loop
    in_channel,      \* per channel, the messages sent and not yet received
    verified_connected, \* whether the verified channel still has its sender
    worker_event     \* the last step: the worker, what came of it, whether counted

VARIABLES
    peer_node,       \* one NodeOutstandingRequests: its requests and its next nonce
    node_now,        \* the timestamps the node is called with, in milliseconds
    node_calls,      \* how many calls were made on the node and clock advances
    answered,        \* per nonce given out: its request, and the true results so far
    node_call        \* the last call on the node and what it returned

VARIABLES
    insert_queue,    \* the insert channel: the vectors of shreds sent, not yet received
    insert_calls,    \* the calls of insert_shreds_handle_duplicate: their shreds
    send_failed,     \* whether a send to the insert channel has failed
    wakeups,         \* how many wake-ups recv_window has had
    pipeline_call    \* the last wake-up: whose it was, what it took and handed on

VARIABLES
    slot_receiver,   \* the slots sent to the entry-verify worker, not yet taken
    verify_call      \* the last send or slot taken by verify_entries and what came of it

VARIABLES
    stored_index2,   \* the Index2 of a slot: its data and its coding bitset
    legacy_index,    \* the Index of the slot: its data and its coding sorted set
    convert_call     \* the last call on the two forms of the index

VARIABLES
    snapshot_dir,    \* the snapshot directory the caller saves to: file name -> content
    dir_created,     \* whether the snapshot directory exists
    saved,           \* slot -> the node add_snapshot was called for since the last load
    loaded,          \* the fork manager load_from_snapshot returned last
    snapshot_fault,  \* "none", or the panic of add_snapshot or load_from_snapshot
    snapshot_calls,  \* how many snapshot calls were made
    snapshot_call    \* the last snapshot call, its slot and its result

forks_vars == <<banks, working_bank, root, slots, snapshot_files, child_bank,
                fault, persisted, op>>

requests_vars == <<requests, now, steps, call>>

index_vars == <<index, present, index_call>>

meta_vars == <<slot_meta, meta_call>>

cache_vars == <<cache, insertion_order, queue_capacity, capacity, cache_fault,
                cache_calls, pushed, cache_call>>

entry_vars == <<entry, entry_call>>

filter_vars == <<filter_call>>

recv_vars == <<dead_slots, recv_call>>

dup_vars == <<held_shreds, duplicate_slots, dup_call>>

workers_vars == <<exit_flag, pc, in_channel, verified_connected,
                  worker_event>>

node_vars == <<peer_node, node_now, node_calls, answered, node_call>>

pipeline_vars == <<insert_queue, insert_calls, send_failed, wakeups, pipeline_call>>

verify_vars == <<slot_receiver, verify_call>>

convert_vars == <<stored_index2, legacy_index, convert_call>>

snapshot_vars == <<snapshot_dir, dir_created, saved, loaded, snapshot_fault,
                   snapshot_calls, snapshot_call>>

vars == <<forks_vars, requests_vars, index_vars, meta_vars, cache_vars,
          entry_vars, filter_vars, recv_vars, dup_vars, workers_vars,
          node_vars, pipeline_vars, verify_vars, convert_vars, snapshot_vars>>

\* What a call on one component leaves alone: the other components.
outside_forks == <<requests_vars, index_vars, meta_vars, cache_vars,
                   entry_vars, filter_vars, recv_vars, dup_vars,
                   workers_vars, node_vars, pipeline_vars, verify_vars,
                   convert_vars, snapshot_vars>>

outside_requests == <<forks_vars, index_vars, meta_vars, cache_vars,
                      entry_vars, filter_vars, recv_vars, dup_vars,
                      workers_vars, node_vars, pipeline_vars, verify_vars,
                      convert_vars, snapshot_vars>>

outside_index == <<forks_vars, requests_vars, meta_vars, cache_vars,
                   entry_vars, filter_vars, recv_vars, dup_vars,
                   workers_vars, node_vars, pipeline_vars, verify_vars,
                   convert_vars, snapshot_vars>>

outside_meta == <<forks_vars, requests_vars, index_vars, cache_vars,
                  entry_vars, filter_vars, recv_vars, dup_vars, workers_vars,
                  node_vars, pipeline_vars, verify_vars, convert_vars,
                  snapshot_vars>>

outside_cache == <<forks_vars, requests_vars, index_vars, meta_vars,
                   entry_vars, filter_vars, recv_vars, dup_vars,
                   workers_vars, node_vars, pipeline_vars, verify_vars,
                   convert_vars, snapshot_vars>>

outside_entry == <<forks_vars, requests_vars, index_vars, meta_vars,
                   cache_vars, filter_vars, recv_vars, dup_vars,
                   workers_vars, node_vars, pipeline_vars, verify_vars,
                   convert_vars, snapshot_vars>>

outside_filter == <<forks_vars, requests_vars, index_vars, meta_vars,
                    cache_vars, entry_vars, recv_vars, dup_vars,
                    workers_vars, node_vars, pipeline_vars, verify_vars,
                    convert_vars, snapshot_vars>>

outside_recv == <<forks_vars, requests_vars, index_vars, meta_vars,
                  cache_vars, entry_vars, filter_vars, dup_vars,
                  workers_vars, node_vars, pipeline_vars, verify_vars,
                  convert_vars, snapshot_vars>>

outside_dup == <<forks_vars, requests_vars, index_vars, meta_vars,
                 cache_vars, entry_vars, filter_vars, recv_vars,
                 workers_vars, node_vars, pipeline_vars, verify_vars,
                 convert_vars, snapshot_vars>>

outside_workers == <<forks_vars, requests_vars, index_vars, meta_vars,
                     cache_vars, entry_vars, filter_vars, recv_vars,
                     dup_vars, node_vars, pipeline_vars, verify_vars,
                     convert_vars, snapshot_vars>>

outside_node == <<forks_vars, requests_vars, index_vars, meta_vars,
                  cache_vars, entry_vars, filter_vars, recv_vars, dup_vars,
                  workers_vars, pipeline_vars, verify_vars, convert_vars,
                  snapshot_vars>>

outside_pipeline == <<forks_vars, requests_vars, index_vars, meta_vars,
                      cache_vars, entry_vars, filter_vars, recv_vars,
                      dup_vars, workers_vars, node_vars, verify_vars,
                      convert_vars, snapshot_vars>>

outside_verify == <<forks_vars, requests_vars, index_vars, meta_vars,
                    cache_vars, entry_vars, filter_vars, recv_vars, dup_vars,
                    workers_vars, node_vars, pipeline_vars, convert_vars,
                    snapshot_vars>>

outside_convert == <<forks_vars, requests_vars, index_vars, meta_vars,
                     cache_vars, entry_vars, filter_vars, recv_vars,
                     dup_vars, workers_vars, node_vars, pipeline_vars,
                     verify_vars, snapshot_vars>>

outside_snapshot == <<forks_vars, requests_vars, index_vars, meta_vars,
                      cache_vars, entry_vars, filter_vars, recv_vars,
                      dup_vars, workers_vars, node_vars, pipeline_vars,
                      verify_vars, convert_vars>>

\* ------------------------------------------------------------------------
\* The state-execution handle (Bank)
\* ------------------------------------------------------------------------

NoBank == [slot |-> -1, ancestors |-> {}, frozen |-> FALSE]

\* Bank::new(genesis): slot 0, its ancestor map holds its own slot.
GenesisBank == [slot |-> 0, ancestors |-> {0}, frozen |-> FALSE]

\* Bank::new_from_parent(parent, _, slot): the child's ancestor map holds its
\* own slot and the parent's ancestors.
new_from_parent(parent, slot) ==
    [slot |-> slot, ancestors |-> parent.ancestors \cup {slot}, frozen |-> FALSE]

\* bank.freeze() through a shared handle: the flag of the live node and of the
\* working node when they are the same object.
freeze(bs, s) == [x \in DOMAIN bs |-> IF x = s THEN [bs[x] EXCEPT !.frozen = TRUE]
                                              ELSE bs[x]]

freeze_working(wb, bs, s) ==
    IF wb.slot = s /\ s \in DOMAIN bs THEN [wb EXCEPT !.frozen = TRUE] ELSE wb

\* bank.squash(): the node's own finalization; it leaves the node frozen.
squash(bs, s) == freeze(bs, s)

\* ------------------------------------------------------------------------
\* BankForks: derived relations
\* ------------------------------------------------------------------------

\* ancestors(): for each bank, its ancestor keys without its own slot.
ancestors_of(bs) == [s \in DOMAIN bs |-> bs[s].ancestors \ {bs[s].slot}]

ancestors == ancestors_of(banks)

\* A mutant of descendants_step: the bank's own slot is not taken out of its
\* ancestor keys.
descendants_step_keeps_self(acc, bank) ==
    LET set == bank.ancestors
        keys == DOMAIN acc \cup {bank.slot} \cup set
    IN  [k \in keys |-> (IF k \in DOMAIN acc THEN acc[k] ELSE {})
                        \cup (IF k \in set THEN {bank.slot} ELSE {})]

\* One iteration of the loop of descendants(): an entry for the bank's slot,
\* and the bank's slot added to the entry of each of its ancestors.
descendants_step(acc, bank) ==
    LET set == bank.ancestors \ {bank.slot}
        keys == DOMAIN acc \cup {bank.slot} \cup set
    IN  [k \in keys |-> (IF k \in DOMAIN acc THEN acc[k] ELSE {})
                        \cup (IF k \in set THEN {bank.slot} ELSE {})]

RECURSIVE descendants_loop(_, _, _)
descendants_loop(bs, todo, acc) ==
    IF todo = {} THEN acc
    ELSE LET s == CHOOSE x \in todo : TRUE
         IN  descendants_loop(bs, todo \ {s}, descendants_step(acc, bs[s]))

descendants_of(bs) == descendants_loop(bs, DOMAIN bs, <<>>)

descendants == descendants_of(banks)

frozen_slots(bs) == {s \in DOMAIN bs : bs[s].frozen}

\* ------------------------------------------------------------------------
\* BankForks: operations
\* ------------------------------------------------------------------------

\* The caller makes a child of a live node; new_from_parent freezes the parent.
NewBank(parent, slot) ==
    /\ fault = "none"
    /\ child_bank = NoBank
    /\ parent \in DOMAIN banks
    /\ slot > parent
    /\ child_bank' = new_from_parent(banks[parent], slot)
    /\ banks' = freeze(banks, parent)
    /\ working_bank' = freeze_working(working_bank, banks, parent)
    /\ op' = "new_from_parent"
    /\ persisted' = {}
    /\ UNCHANGED <<root, slots, snapshot_files, fault>>
    /\ UNCHANGED outside_forks

\* The caller freezes the child before inserting it.
FreezeChild ==
    /\ fault = "none"
    /\ child_bank # NoBank
    /\ ~child_bank.frozen
    /\ child_bank' = [child_bank EXCEPT !.frozen = TRUE]
    /\ op' = "freeze"
    /\ persisted' = {}
    /\ UNCHANGED <<banks, working_bank, root, slots, snapshot_files, fault>>
    /\ UNCHANGED outside_forks

\* A holder of a live node's handle freezes it.
Freeze(s) ==
    /\ fault = "none"
    /\ s \in DOMAIN banks
    /\ ~banks[s].frozen
    /\ banks' = freeze(banks, s)
    /\ working_bank' = freeze_working(working_bank, banks, s)
    /\ op' = "freeze"
    /\ persisted' = {}
    /\ UNCHANGED <<root, slots, snapshot_files, child_bank, fault>>
    /\ UNCHANGED outside_forks

\* HashMap::insert: the entry for the bank's slot is set, replacing any.
banks_insert(bs, bank) ==
    [x \in DOMAIN bs \cup {bank.slot} |-> IF x = bank.slot THEN bank ELSE bs[x]]

InsertFault == "insert: assertion failed: prev.is_none()"

RootFault == "set_root: root bank didn't exist in bank_forks"

SnapshotFault == "add_snapshot: called Option::unwrap() on a None value"

\* A mutant of assert_prev_is_none: no assertion, the old entry is replaced
\* silently.
assert_prev_is_none_dropped(bs, bank) == "none"

\* assert!(prev.is_none()) of insert: the panic when the slot had an entry.
assert_prev_is_none(bs, bank) ==
    IF bank.slot \in DOMAIN bs THEN InsertFault ELSE "none"

\* insert(bank): the map entry is written, then the assertion that there was
\* none before, then the working node.
Insert ==
    /\ fault = "none"
    /\ child_bank # NoBank
    /\ banks' = banks_insert(banks, child_bank)
    /\ fault' = assert_prev_is_none(banks, child_bank)
    /\ working_bank' = IF fault' = "none" THEN child_bank ELSE working_bank
    /\ child_bank' = NoBank
    /\ op' = "insert"
    /\ persisted' = {}
    /\ UNCHANGED <<root, slots, snapshot_files>>
    /\ UNCHANGED outside_forks

\* symmetric_difference of two sets of slots.
symmetric_difference(a, b) == (a \ b) \cup (b \ a)

\* The retain of prune_non_root: a node stays when its slot is in the new
\* root's entry of descendants().
prune_retain(bs, r) ==
    LET of_root == descendants_of(bs)[r]
        keep == {s \in DOMAIN bs : s \in of_root}
    IN  [s \in keep |-> bs[s]]

\* The choice the loop of prune_non_root makes for a slot of the difference:
\* a slot above the root gets add_snapshot, any other remove_snapshot.
snapshot_added(diff, r) == {s \in diff : s > r}

snapshot_removed(diff, r) == {s \in diff : ~(s > r)}

\* add_snapshot(slot) creates the file and then unwraps get(slot): it panics
\* for a slot that is no longer in the map.
add_snapshot_panics(bs, diff, r) == {s \in snapshot_added(diff, r) : s \notin DOMAIN bs}

\* The snapshot directory after add_snapshot for `added`, remove_snapshot for
\* `removed`; the file system is taken to carry out both.
files_after(files, added, removed) == (files \cup added) \ removed

\* A mutant of expect_root_bank: a missing root bank is passed over.
expect_root_bank_ignored(bs, r) == "none"

\* .expect("root bank didn't exist in bank_forks") of set_root: the panic when
\* the map has no entry for the new root.
expect_root_bank(bs, r) == IF r \in DOMAIN bs THEN "none" ELSE RootFault

\* set_root(r): the root is recorded, the root bank looked up (a panic when it
\* is missing) and squashed, then prune_non_root. The loop over the difference
\* runs in the hash set's order: when add_snapshot panics, any part of the
\* other slots may have been handled before.
SetRoot(r) ==
    /\ fault = "none"
    /\ root' = r
    /\ IF r \notin DOMAIN banks
       THEN /\ fault' = expect_root_bank(banks, r)
            /\ persisted' = {}
            /\ UNCHANGED <<banks, working_bank, slots, snapshot_files>>
       ELSE LET squashed == squash(banks, r)
                now_frozen == frozen_slots(squashed)
                kept == prune_retain(squashed, r)
                diff == symmetric_difference(now_frozen, slots)
                panics == add_snapshot_panics(kept, diff, r)
            IN  /\ banks' = kept
                /\ working_bank' = freeze_working(working_bank, banks, r)
                /\ IF panics = {}
                   THEN /\ snapshot_files' = files_after(snapshot_files,
                                snapshot_added(diff, r), snapshot_removed(diff, r))
                        /\ slots' = now_frozen
                        /\ fault' = "none"
                        /\ persisted' = snapshot_added(diff, r)
                   ELSE \E p \in panics : \E done \in SUBSET (diff \ panics) :
                        /\ snapshot_files' = files_after(snapshot_files,
                                snapshot_added(done, r), snapshot_removed(done, r))
                                \cup {p}
                        /\ slots' = slots
                        /\ fault' = SnapshotFault
                        /\ persisted' = {}
    /\ op' = "set_root"
    /\ UNCHANGED child_bank
    /\ UNCHANGED outside_forks

NextForks ==
    \/ \E p \in Slot, s \in Slot : NewBank(p, s)
    \/ FreezeChild
    \/ \E s \in Slot : Freeze(s)
    \/ Insert
    \/ \E r \in Slot : SetRoot(r)

\* ------------------------------------------------------------------------
\* Outstanding-request tracker
\* ------------------------------------------------------------------------

DEFAULT_REQUEST_EXPIRATION_MS == 10000

\* The checker's integers are 32-bit and signed: a u32 value v is held as
\* v - 2^31, so that 0 is U32_ZERO and std::u32::MAX (4294967295) is U32_MAX.
U32_ZERO == -2147483647 - 1

U32_MAX == 2147483647

\* The u32 of a small number.
u32(n) == U32_ZERO + n

\* A mutant of rem_u32_max: the remainder is not taken.
rem_u32_max_skipped(a) == a

\* a % std::u32::MAX, for a u32 a.
rem_u32_max(a) == IF a = U32_MAX THEN U32_ZERO ELSE a

\* The peers' IP addresses.
Peer == {"10.0.0.1", "10.0.0.2"}

\* RequestResponse: a request tells how many responses it expects and whether
\* a response answers it. The requests made ask for shred 0; a response
\* carries shred 0 or shred 1.
Request == [key : {0}, expected : 1..MaxExpected]

Response == {0, 1}

num_expected_responses(request) == request.expected

verify_response(request, response) == response = request.key

\* NodeOutstandingRequests::default()
NodeDefault == [requests |-> <<>>, nonce |-> u32(0)]

\* HashMap::insert on the node's requests.
requests_insert(m, nonce, status) ==
    [x \in DOMAIN m \cup {nonce} |-> IF x = nonce THEN status ELSE m[x]]

\* HashMap::remove on the node's requests.
requests_remove(m, nonce) == [x \in DOMAIN m \ {nonce} |-> m[x]]

\* NodeOutstandingRequests::add_request: the node afterwards; the nonce
\* returned is the node's nonce before.
node_add_request(node, request, t) ==
    [requests |-> requests_insert(node.requests, node.nonce,
                      [expire_timestamp |-> t + DEFAULT_REQUEST_EXPIRATION_MS,
                       num_expected_responses |-> num_expected_responses(request),
                       request |-> request]),
     nonce |-> rem_u32_max(node.nonce + 1)]

\* A mutant of check_response: a valid response leaves the count as it was.
check_response_keeps_count(status, response, t) ==
    IF /\ status.num_expected_responses > 0
       /\ t < status.expire_timestamp
       /\ verify_response(status.request, response)
    THEN [is_valid |-> TRUE, should_delete |-> FALSE,
          left |-> status.num_expected_responses]
    ELSE [is_valid |-> FALSE, should_delete |-> TRUE,
          left |-> status.num_expected_responses]

\* A mutant of check_response: a late or wrong response leaves the entry.
check_response_keeps_entry(status, response, t) ==
    IF /\ status.num_expected_responses > 0
       /\ t < status.expire_timestamp
       /\ verify_response(status.request, response)
    THEN [is_valid |-> TRUE,
          should_delete |-> status.num_expected_responses - 1 = 0,
          left |-> status.num_expected_responses - 1]
    ELSE [is_valid |-> FALSE, should_delete |-> FALSE,
          left |-> status.num_expected_responses]

\* A mutant of check_response: the count is not tested before it is taken
\* down.
check_response_any_count(status, response, t) ==
    IF /\ t < status.expire_timestamp
       /\ verify_response(status.request, response)
    THEN [is_valid |-> TRUE,
          should_delete |-> status.num_expected_responses - 1 = 0,
          left |-> status.num_expected_responses - 1]
    ELSE [is_valid |-> FALSE, should_delete |-> TRUE,
          left |-> status.num_expected_responses]

\* The closure of register_response on an entry that exists: whether the
\* response is valid, whether the entry is to be deleted, and the count left.
check_response(status, response, t) ==
    IF /\ status.num_expected_responses > 0
       /\ t < status.expire_timestamp
       /\ verify_response(status.request, response)
    THEN [is_valid |-> TRUE,
          should_delete |-> status.num_expected_responses - 1 = 0,
          left |-> status.num_expected_responses - 1]
    ELSE [is_valid |-> FALSE, should_delete |-> TRUE,
          left |-> status.num_expected_responses]

\* A mutant of node_register_response: a nonce without an entry is taken
\* for a valid response.
node_register_response_unwrap_true(node, nonce, response, t) ==
    IF nonce \notin DOMAIN node.requests
    THEN [node |-> node, is_valid |-> TRUE, deleted |-> FALSE]
    ELSE LET r == check_response(node.requests[nonce], response, t)
             counted == [node.requests EXCEPT
                            ![nonce].num_expected_responses = r.left]
         IN  [node |-> [node EXCEPT !.requests =
                            IF r.should_delete THEN requests_remove(counted, nonce)
                            ELSE counted],
              is_valid |-> r.is_valid, deleted |-> r.should_delete]

\* NodeOutstandingRequests::register_response: the node afterwards and the
\* value returned.
node_register_response(node, nonce, response, t) ==
    IF nonce \notin DOMAIN node.requests
    THEN [node |-> node, is_valid |-> FALSE, deleted |-> FALSE]
    ELSE LET r == check_response(node.requests[nonce], response, t)
             counted == [node.requests EXCEPT
                            ![nonce].num_expected_responses = r.left]
         IN  [node |-> [node EXCEPT !.requests =
                            IF r.should_delete THEN requests_remove(counted, nonce)
                            ELSE counted],
              is_valid |-> r.is_valid, deleted |-> r.should_delete]

\* No call of the tracker yet.
NoCall == [op |-> "default", peer |-> "", nonce |-> u32(0), response |-> -1,
           result |-> FALSE, deleted |-> FALSE]

\* The node of a peer: entry(ip).or_default().
node_of(m, peer) == IF peer \in DOMAIN m THEN m[peer] ELSE NodeDefault

\* A mutant of AddRequest: the request is recorded at every peer's node, as
\* if the nodes were not keyed by IP.
AddRequest_keyless(peer, request) ==
    /\ steps < MaxSteps
    /\ steps' = steps + 1
    /\ LET node == node_of(requests, peer)
       IN  /\ requests' = [x \in DOMAIN requests \cup {peer} |->
                            node_add_request(node_of(requests, x), request, now)]
           /\ call' = [op |-> "add_request", peer |-> peer, nonce |-> node.nonce,
                       response |-> -1, result |-> FALSE, deleted |-> FALSE]
    /\ UNCHANGED now
    /\ UNCHANGED outside_requests

\* OutstandingRequests::add_request
AddRequest(peer, request) ==
    /\ steps < MaxSteps
    /\ steps' = steps + 1
    /\ LET node == node_of(requests, peer)
       IN  /\ requests' = [x \in DOMAIN requests \cup {peer} |->
                            IF x = peer THEN node_add_request(node, request, now)
                            ELSE requests[x]]
           /\ call' = [op |-> "add_request", peer |-> peer, nonce |-> node.nonce,
                       response |-> -1, result |-> FALSE, deleted |-> FALSE]
    /\ UNCHANGED now
    /\ UNCHANGED outside_requests

\* OutstandingRequests::register_response
RegisterResponse(peer, nonce, response) ==
    /\ IF peer \in DOMAIN requests
       THEN LET r == node_register_response(requests[peer], nonce, response, now)
            IN  /\ requests' = [requests EXCEPT ![peer] = r.node]
                /\ call' = [op |-> "register_response", peer |-> peer,
                            nonce |-> nonce, response |-> response,
                            result |-> r.is_valid, deleted |-> r.deleted]
       ELSE /\ requests' = requests
            /\ call' = [op |-> "register_response", peer |-> peer,
                        nonce |-> nonce, response |-> response,
                        result |-> FALSE, deleted |-> FALSE]
    /\ UNCHANGED <<now, steps>>
    /\ UNCHANGED outside_requests

\* Time passes: a millisecond, the expiration, or a millisecond less.
Tick(d) ==
    /\ steps < MaxSteps
    /\ now' = now + d
    /\ steps' = steps + 1
    /\ call' = [NoCall EXCEPT !.op = "tick"]
    /\ UNCHANGED requests
    /\ UNCHANGED outside_requests

NextRequests ==
    \/ \E p \in Peer, q \in Request : AddRequest(p, q)
    \/ \E p \in Peer, s \in Response :
        \E n \in DOMAIN node_of(requests, p).requests \cup {node_of(requests, p).nonce} :
            RegisterResponse(p, n, s)
    \/ \E d \in {1, DEFAULT_REQUEST_EXPIRATION_MS - 1, DEFAULT_REQUEST_EXPIRATION_MS} :
            Tick(d)

\* ------------------------------------------------------------------------
\* Shred index and erasure status
\* ------------------------------------------------------------------------

\* cmp::min and cmp::max
min(a, b) == IF a < b THEN a ELSE b

max(a, b) == IF a > b THEN a ELSE b

\* BitVec: bit i of the vector is element i + 1 of the sequence.
bitvec_len(bv) == Len(bv)

bitvec_get(bv, i) == bv[i + 1]

bitvec_set(bv, i, value) == [bv EXCEPT ![i + 1] = value]

\* BitVec::resize(len, false): cut to len bits, or filled up with false.
bitvec_resize(bv, len) ==
    IF len <= Len(bv) THEN SubSeq(bv, 1, len)
    ELSE bv \o [k \in 1..(len - Len(bv)) |-> FALSE]

\* ShredIndex2::default()
ShredIndex2Default == [index |-> <<>>, num_present |-> 0]

\* Index2::new(slot)
Index2New(slot) ==
    [slot |-> slot, data |-> ShredIndex2Default, coding |-> ShredIndex2Default]

\* The two bitsets of an Index2: data() / data_mut(), coding() / coding_mut().
Which == {"data", "coding"}

num_shreds(si) == si.num_present

\* A mutant of present_in_bounds: every bit of the overlap is counted, set
\* or not.
present_in_bounds_counts_bits(si, start, end) ==
    Cardinality({idx \in min(start, bitvec_len(si.index))
                            ..(min(end, bitvec_len(si.index)) - 1) : TRUE})

\* ShredIndex2::present_in_bounds(start..end)
present_in_bounds(si, start, end) ==
    Cardinality({idx \in min(start, bitvec_len(si.index))
                            ..(min(end, bitvec_len(si.index)) - 1) :
                    bitvec_get(si.index, idx)})

\* ShredIndex2::is_present
is_present(si, i) == i < bitvec_len(si.index) /\ bitvec_get(si.index, i)

\* A mutant of set_present: the count moves whether or not the bit changes.
set_present_double_count(si, i, presence) ==
    LET resized == bitvec_resize(si.index, max(i + 1, bitvec_len(si.index)))
    IN  [index |-> bitvec_set(resized, i, presence),
         num_present |-> IF presence THEN si.num_present + 1
                         ELSE si.num_present - 1]

\* A mutant of set_present: the bitset is resized to hold index and no more.
set_present_shrinks(si, i, presence) ==
    LET resized == bitvec_resize(si.index, i + 1)
        previous == bitvec_get(resized, i)
    IN  IF previous # presence
        THEN [index |-> bitvec_set(resized, i, presence),
              num_present |-> IF presence THEN si.num_present + 1
                              ELSE si.num_present - 1]
        ELSE [index |-> resized, num_present |-> si.num_present]

\* ShredIndex2::set_present
set_present(si, i, presence) ==
    LET resized == bitvec_resize(si.index, max(i + 1, bitvec_len(si.index)))
        previous == bitvec_get(resized, i)
    IN  IF previous # presence
        THEN [index |-> bitvec_set(resized, i, presence),
              num_present |-> IF presence THEN si.num_present + 1
                              ELSE si.num_present - 1]
        ELSE [index |-> resized, num_present |-> si.num_present]

\* ShredIndex2::set_many_present: set_present for each pair, in order.
RECURSIVE set_many_present(_, _)
set_many_present(si, pairs) ==
    IF pairs = <<>> THEN si
    ELSE set_many_present(set_present(si, Head(pairs)[1], Head(pairs)[2]),
                          Tail(pairs))

\* ErasureConfig (num_data, num_coding), ErasureMeta::new(set_index, config)
\* and the erasure sets looked at: the first two of a slot's indices.
ErasureConfig == [num_data : {MaxData}, num_coding : {1, MaxData}]

ErasureMetaNew(set_index, config) == [set_index |-> set_index, config |-> config]

ErasureMetas == {ErasureMetaNew(i, c) : i \in {0, 1}, c \in ErasureConfig}

\* ErasureMetaStatus
DataFull == [status |-> "DataFull", needed |-> 0]

CanRecover == [status |-> "CanRecover", needed |-> 0]

StillNeed(n) == [status |-> "StillNeed", needed |-> n]

\* A mutant of saturating_sub: a plain subtraction.
saturating_sub_plain(a, b) == a - b

\* usize::saturating_sub
saturating_sub(a, b) == IF a > b THEN a - b ELSE 0

\* ErasureMeta::status
status(meta, idx) ==
    LET num_coding == present_in_bounds(idx.coding, meta.set_index,
                          meta.set_index + meta.config.num_coding)
        num_data == present_in_bounds(idx.data, meta.set_index,
                          meta.set_index + meta.config.num_data)
        data_missing == saturating_sub(meta.config.num_data, num_data)
        num_needed == saturating_sub(meta.config.num_data, num_data + num_coding)
    IN  IF data_missing = 0 THEN DataFull
        ELSE IF num_needed = 0 THEN CanRecover
        ELSE StillNeed(num_needed)

\* The (index, presence) pairs given to set_many_present: a range of indices
\* zipped with one value, as (a..b).zip(repeat(v)), or an index set to a
\* value and then to the other.
range_zip(a, b, v) ==
    <<>> \o [k \in 1..(IF b > a THEN b - a ELSE 0) |-> <<a + k - 1, v>>]

Presence ==
    {range_zip(a, b, v) : a \in ShredIdx, b \in 0..(MaxIndex + 1), v \in BOOLEAN}
    \cup {<<<<i, v>>, <<i, ~v>>>> : i \in ShredIdx, v \in BOOLEAN}

\* The indices whose last pair in `pairs` holds true, and those of `old` that
\* no pair names.
last_true(old, pairs) ==
    LET named == {pairs[k][1] : k \in DOMAIN pairs}
        last(i) == CHOOSE k \in DOMAIN pairs :
                        /\ pairs[k][1] = i
                        /\ \A j \in DOMAIN pairs : pairs[j][1] = i => j <= k
    IN  {i \in named : pairs[last(i)][2]} \cup (old \ named)

NoIndexCall == [op |-> "new", which |-> "", index |-> 0, presence |-> FALSE]

\* index.data_mut().set_present(i, presence), or coding_mut()
SetPresent(which, i, presence) ==
    /\ index' = [index EXCEPT ![which] = set_present(@, i, presence)]
    /\ present' = [present EXCEPT ![which] = last_true(@, <<<<i, presence>>>>)]
    /\ index_call' = [op |-> "set_present", which |-> which, index |-> i,
                      presence |-> presence]
    /\ UNCHANGED outside_index

\* index.data_mut().set_many_present(pairs), or coding_mut()
SetManyPresent(which, pairs) ==
    /\ index' = [index EXCEPT ![which] = set_many_present(@, pairs)]
    /\ present' = [present EXCEPT ![which] = last_true(@, pairs)]
    /\ index_call' = [NoIndexCall EXCEPT !.op = "set_many_present",
                                         !.which = which]
    /\ UNCHANGED outside_index

NextIndex ==
    \/ \E w \in Which, i \in ShredIdx, v \in BOOLEAN : SetPresent(w, i, v)
    \/ \E w \in Which, pairs \in Presence : SetManyPresent(w, pairs)

\* ------------------------------------------------------------------------
\* Slot meta
\* ------------------------------------------------------------------------

\* A u64 is held as the i64 of the same 64 bits: std::u64::MAX is -1, the
\* values just below it are -2, -3, ..., and adding one is the same on both
\* readings but for the wrap from std::u64::MAX to 0.
U64_MAX == -1

\* The u64 values the fields are given: the small ones and the two largest.
U64 == (0..MaxCount) \cup {U64_MAX - 1, U64_MAX}

\* a > b on u64.
u64_gt(a, b) == IF (a >= 0) = (b >= 0) THEN a > b ELSE a < 0

\* SlotMeta::new(slot, parent_slot)
SlotMetaNew(slot, parent_slot) ==
    [slot |-> slot, consumed |-> 0, received |-> 0, first_shred_timestamp |-> 0,
     parent_slot |-> parent_slot, next_slots |-> <<>>, is_connected |-> slot = 0,
     last_index |-> U64_MAX, completed_data_indexes |-> <<>>]

\* SlotMeta::new_orphan(slot)
SlotMetaNewOrphan(slot) == SlotMetaNew(slot, U64_MAX)

\* The datapoint_error of is_full ("Should never happen"): whether it is
\* reported. It is not part of the value returned.
is_full_reports(meta) ==
    /\ meta.last_index # U64_MAX
    /\ u64_gt(meta.consumed, meta.last_index + 1)

\* A mutant of is_full: the unknown last_index is not looked for, and
\* std::u64::MAX + 1 wraps to 0.
is_full_unguarded(meta) == meta.consumed = meta.last_index + 1

\* SlotMeta::is_full
is_full(meta) ==
    IF meta.last_index = U64_MAX THEN FALSE
    ELSE meta.consumed = meta.last_index + 1

\* SlotMeta::is_parent_set
is_parent_set(meta) == meta.parent_slot # U64_MAX

\* SlotMeta::clear_unconfirmed_slot: a new orphan that keeps next_slots.
clear_unconfirmed_slot(meta) ==
    [SlotMetaNewOrphan(meta.slot) EXCEPT !.next_slots = meta.next_slots]

NoMetaCall == [op |-> "default", result |-> FALSE, reported |-> FALSE]

\* SlotMeta::new for a slot with a parent, new_orphan for one without.
NewSlotMeta(slot, parent_slot) ==
    /\ slot_meta' = SlotMetaNew(slot, parent_slot)
    /\ meta_call' = [NoMetaCall EXCEPT !.op = "new"]
    /\ UNCHANGED outside_meta

NewOrphan(slot) ==
    /\ slot_meta' = SlotMetaNewOrphan(slot)
    /\ meta_call' = [NoMetaCall EXCEPT !.op = "new_orphan"]
    /\ UNCHANGED outside_meta

\* The owner of the meta writes its public fields: the shreds consumed, the
\* slot that follows, and the index of the last shred once that is known.
SetConsumed(consumed) ==
    /\ slot_meta' = [slot_meta EXCEPT !.consumed = consumed,
                                      !.received = consumed]
    /\ meta_call' = [NoMetaCall EXCEPT !.op = "consumed"]
    /\ UNCHANGED outside_meta

SetLastIndex(last_index) ==
    /\ slot_meta' = [slot_meta EXCEPT !.last_index = last_index]
    /\ meta_call' = [NoMetaCall EXCEPT !.op = "last_index"]
    /\ UNCHANGED outside_meta

SetNextSlots(next) ==
    /\ slot_meta' = [slot_meta EXCEPT !.next_slots = <<next>>]
    /\ meta_call' = [NoMetaCall EXCEPT !.op = "next_slots"]
    /\ UNCHANGED outside_meta

ClearUnconfirmedSlot ==
    /\ slot_meta' = clear_unconfirmed_slot(slot_meta)
    /\ meta_call' = [NoMetaCall EXCEPT !.op = "clear_unconfirmed_slot"]
    /\ UNCHANGED outside_meta

IsFull ==
    /\ meta_call' = [op |-> "is_full", result |-> is_full(slot_meta),
                     reported |-> is_full_reports(slot_meta)]
    /\ UNCHANGED slot_meta
    /\ UNCHANGED outside_meta

NextMeta ==
    \/ \E s \in {0, 1}, p \in {0} : NewSlotMeta(s, p)
    \/ \E s \in {0, 1} : NewOrphan(s)
    \/ \E c \in U64 : SetConsumed(c)
    \/ \E l \in U64 : SetLastIndex(l)
    \/ \E n \in {1} : SetNextSlots(n + slot_meta.slot)
    \/ ClearUnconfirmedSlot
    \/ IsFull

\* ------------------------------------------------------------------------
\* Transmit-shred cache
\* ------------------------------------------------------------------------

\* A Shred, as far as the cache looks at it: index(), is_data(), and `last`
\* for last_in_slot() of a data shred, is_last_coding_in_set() of a coding
\* shred.
shred(i, data, flagged) == [index |-> i, is_data |-> data, last |-> flagged]

\* The batches pushed: none, data from index 0, data from index 1 up to the
\* last of the slot, coding from index 0, coding from index 1 up to the last
\* of the set, and data followed by coding.
Batch ==
    {<<>>,
     <<shred(0, TRUE, FALSE)>>,
     <<shred(1, TRUE, TRUE)>>,
     <<shred(0, FALSE, FALSE)>>,
     <<shred(1, FALSE, TRUE)>>,
     <<shred(0, TRUE, FALSE), shred(0, FALSE, FALSE)>>}

\* Option<Arc<HashMap<Pubkey, u64>>>: the stake map, or None.
NoStakes == "None"

Stakes == {NoStakes, "stakes"}

\* TransmitShreds
TransmitShreds == [stakes : Stakes, shreds : Batch]

\* What the blockstore holds for a slot: data and coding shreds by index.
NoShreds == <<>>

StoredData ==
    {NoShreds,
     (0 :> shred(0, TRUE, FALSE)) @@ (1 :> shred(1, TRUE, TRUE)),
     (0 :> shred(0, TRUE, TRUE)) @@ (1 :> shred(1, TRUE, FALSE)),
     (1 :> shred(1, TRUE, TRUE))}

StoredCoding ==
    {NoShreds,
     (0 :> shred(0, FALSE, FALSE)) @@ (1 :> shred(1, FALSE, TRUE))}

Blockstore == [data : StoredData, coding : StoredCoding]

\* The panics of push and get.
PopFault == "pop_front().unwrap() on an empty queue"

RemoveFault == "cache.remove(&old_slot).unwrap() on a missing slot"

StakesFault == "TransmitShreds for a slot must contain stakes"

AssertFault == "assertion failed: transmit shreds of both types"

JustInsertedFault == "Just inserted this entry, must exist"

\* usize::next_power_of_two
RECURSIVE pow2_from(_, _)
pow2_from(p, n) == IF p >= n THEN p ELSE pow2_from(2 * p, n)

next_power_of_two(n) == pow2_from(1, n)

\* VecDeque::with_capacity(capacity).capacity(): "space for at least
\* capacity elements". The std deque that sizes its buffer exactly gives
\* capacity; the ring buffer of the std before it keeps a power of two of
\* slots, one of them empty, and no fewer than two.
with_capacity(cap) ==
    {cap, next_power_of_two(max(cap + 1, 2)) - 1}

\* SlotCachedTransmitShreds made by push for a new slot.
SlotCachedTransmitShredsNew(stakes) ==
    [stakes |-> stakes, data_shred_batches |-> <<>>, coding_shred_batches |-> <<>>]

\* The last shred of the last batch of a list has its flag set.
last_is_flagged(batches) ==
    /\ batches # <<>>
    /\ batches[Len(batches)] # <<>>
    /\ batches[Len(batches)][Len(batches[Len(batches)])].last

\* A mutant of contains_all_shreds: the coding batches are not looked at.
contains_all_shreds_data_only(e) ==
    last_is_flagged(e.data_shred_batches)

\* SlotCachedTransmitShreds::contains_all_shreds
contains_all_shreds(e) ==
    /\ last_is_flagged(e.data_shred_batches)
    /\ last_is_flagged(e.coding_shred_batches)

\* HashMap::insert and HashMap::remove on the cache.
cache_insert(m, slot, e) ==
    [x \in DOMAIN m \cup {slot} |-> IF x = slot THEN e ELSE m[x]]

cache_remove(m, slot) == [x \in DOMAIN m \ {slot} |-> m[x]]

\* push, where the queue is at its capacity: the front slot is popped and
\* removed from the map.
evict(st, queue_cap) ==
    IF Len(st.insertion_order) = queue_cap
    THEN IF st.insertion_order = <<>>
         THEN [st EXCEPT !.fault = PopFault]
         ELSE LET old_slot == Head(st.insertion_order)
              IN  IF old_slot \notin DOMAIN st.cache
                  THEN [st EXCEPT !.insertion_order = Tail(@),
                                  !.fault = RemoveFault]
                  ELSE [st EXCEPT !.insertion_order = Tail(@),
                                  !.cache = cache_remove(@, old_slot)]
    ELSE st

\* push, its end: the batch goes to the data or to the coding list of the
\* slot's entry by the type of its first shred, all shreds being of that type.
append_batch(st, slot, shreds) ==
    IF shreds[1].is_data
    THEN IF \A k \in DOMAIN shreds : shreds[k].is_data
         THEN [st EXCEPT !.cache[slot].data_shred_batches = Append(@, shreds)]
         ELSE [st EXCEPT !.fault = AssertFault]
    ELSE IF \A k \in DOMAIN shreds : ~shreds[k].is_data
         THEN [st EXCEPT !.cache[slot].coding_shred_batches = Append(@, shreds)]
         ELSE [st EXCEPT !.fault = AssertFault]

\* A mutant of push: an entry is made whatever the index of the first shred.
push_any_index(st, queue_cap, slot, ts) ==
    IF st.fault # "none" THEN st
    ELSE IF ts.shreds = <<>> THEN st
    ELSE IF slot \notin DOMAIN st.cache
    THEN LET evicted == evict(st, queue_cap)
             queued == [evicted EXCEPT !.insertion_order = Append(@, slot)]
         IN  IF evicted.fault # "none" THEN evicted
             ELSE IF ts.stakes = NoStakes
             THEN [queued EXCEPT !.fault = StakesFault]
             ELSE append_batch(
                      [queued EXCEPT !.cache = cache_insert(@, slot,
                          SlotCachedTransmitShredsNew(ts.stakes))],
                      slot, ts.shreds)
    ELSE append_batch(st, slot, ts.shreds)

\* SlotTransmitShredsCache::push on st = (cache, insertion_order, fault),
\* the queue's capacity() being queue_cap. Nothing runs after a panic.
push(st, queue_cap, slot, ts) ==
    IF st.fault # "none" THEN st
    ELSE IF ts.shreds = <<>> THEN st
    ELSE IF slot \notin DOMAIN st.cache
    THEN IF ts.shreds[1].index # 0 THEN st
         ELSE LET evicted == evict(st, queue_cap)
                  queued == [evicted EXCEPT !.insertion_order = Append(@, slot)]
              IN  IF evicted.fault # "none" THEN evicted
                  ELSE IF ts.stakes = NoStakes
                  THEN [queued EXCEPT !.fault = StakesFault]
                  ELSE append_batch(
                           [queued EXCEPT !.cache = cache_insert(@, slot,
                               SlotCachedTransmitShredsNew(ts.stakes))],
                           slot, ts.shreds)
    ELSE append_batch(st, slot, ts.shreds)

\* The first loop of get: data shreds from current_index on, up to the first
\* index that is missing or the first shred that is last in its slot.
RECURSIVE read_data(_, _)
read_data(stored, current_index) ==
    IF current_index \notin DOMAIN stored THEN <<>>
    ELSE IF stored[current_index].last THEN <<stored[current_index]>>
    ELSE <<stored[current_index]>> \o read_data(stored, current_index + 1)

\* The second loop of get: coding shreds up to the first missing index.
RECURSIVE read_coding(_, _)
read_coding(stored, current_index) ==
    IF current_index \notin DOMAIN stored THEN <<>>
    ELSE <<stored[current_index]>> \o read_coding(stored, current_index + 1)

\* SlotTransmitShredsCache::get for a bank of the slot; the blockstore
\* answers every read.
get(st, queue_cap, slot, stakes, blockstore) ==
    IF slot \in DOMAIN st.cache THEN st
    ELSE LET data_pushed ==
                push(st, queue_cap, slot,
                     [stakes |-> stakes, shreds |-> read_data(blockstore.data, 0)])
             coding_pushed ==
                push(data_pushed, queue_cap, slot,
                     [stakes |-> stakes, shreds |-> read_coding(blockstore.coding, 0)])
         IN  IF coding_pushed.fault = "none" /\ slot \notin DOMAIN coding_pushed.cache
             THEN [coding_pushed EXCEPT !.fault = JustInsertedFault]
             ELSE coding_pushed

\* A call that reads no storage.
NoBlockstore == [data |-> NoShreds, coding |-> NoShreds]

\* No cache made yet.
NoCacheCall == [op |-> "default", slot |-> 0, stakes |-> NoStakes, shreds |-> <<>>,
                blockstore |-> NoBlockstore]

\* The cache as push and get see it.
cache_state == [cache |-> cache, insertion_order |-> insertion_order,
                fault |-> cache_fault]

\* The slots that were given an entry, in that order: those of `before` and
\* the slot of the call if it was not resident and was queued.
pushed_after(before, slot, st) ==
    IF slot \notin DOMAIN cache
            /\ (slot \in DOMAIN st.cache \/ st.fault \in {PopFault, RemoveFault})
    THEN Append(before, slot)
    ELSE before

\* SlotTransmitShredsCache::new(capacity)
NewCache(cap) ==
    /\ cache_call.op = "default"
    /\ capacity' = cap
    /\ queue_capacity' \in with_capacity(cap)
    /\ cache' = <<>>
    /\ insertion_order' = <<>>
    /\ cache_call' = [NoCacheCall EXCEPT !.op = "new"]
    /\ UNCHANGED <<cache_fault, cache_calls, pushed>>
    /\ UNCHANGED outside_cache

\* SlotTransmitShredsCache::push
Push(slot, ts) ==
    /\ cache_call.op # "default"
    /\ cache_fault = "none"
    /\ cache_calls < MaxCalls
    /\ cache_calls' = cache_calls + 1
    /\ LET st == push(cache_state, queue_capacity, slot, ts)
       IN  /\ cache' = st.cache
           /\ insertion_order' = st.insertion_order
           /\ cache_fault' = st.fault
           /\ pushed' = pushed_after(pushed, slot, st)
    /\ cache_call' = [op |-> "push", slot |-> slot, stakes |-> ts.stakes,
                      shreds |-> ts.shreds, blockstore |-> NoBlockstore]
    /\ UNCHANGED <<capacity, queue_capacity>>
    /\ UNCHANGED outside_cache

\* SlotTransmitShredsCache::get
Get(slot, stakes, blockstore) ==
    /\ cache_call.op # "default"
    /\ cache_fault = "none"
    /\ cache_calls < MaxCalls
    /\ cache_calls' = cache_calls + 1
    /\ LET st == get(cache_state, queue_capacity, slot, stakes, blockstore)
       IN  /\ cache' = st.cache
           /\ insertion_order' = st.insertion_order
           /\ cache_fault' = st.fault
           /\ pushed' = pushed_after(pushed, slot, st)
    /\ cache_call' = [op |-> IF slot \in DOMAIN cache THEN "get hit" ELSE "get miss",
                      slot |-> slot, stakes |-> stakes, shreds |-> <<>>,
                      blockstore |-> blockstore]
    /\ UNCHANGED <<capacity, queue_capacity>>
    /\ UNCHANGED outside_cache

NextCache ==
    \/ \E cap \in 0..MaxCapacity : NewCache(cap)
    \/ \E slot \in CacheSlot, ts \in TransmitShreds : Push(slot, ts)
    \/ \E slot \in CacheSlot, stakes \in Stakes, blockstore \in Blockstore :
            Get(slot, stakes, blockstore)

\* ------------------------------------------------------------------------
\* Cached transmit shreds of one slot
\* ------------------------------------------------------------------------

\* #[derive(Default)] SlotCachedTransmitShreds: no stakes, no batches.
SlotCachedTransmitShredsDefault ==
    [stakes |-> "default", data_shred_batches |-> <<>>, coding_shred_batches |-> <<>>]

\* The batches of one type put in an entry: none, one shred flagged or not,
\* two shreds the first or the second of them flagged.
EntryBatch(data) ==
    {<<>>,
     <<shred(0, data, FALSE)>>,
     <<shred(0, data, TRUE)>>,
     <<shred(0, data, TRUE), shred(1, data, FALSE)>>,
     <<shred(0, data, FALSE), shred(1, data, TRUE)>>}

NoEntryCall == [op |-> "default", result |-> FALSE]

\* data_shred_batches.push(batch) on the public field.
PushDataBatch(batch) ==
    /\ Len(entry.data_shred_batches) < MaxBatches
    /\ entry' = [entry EXCEPT !.data_shred_batches = Append(@, batch)]
    /\ entry_call' = [op |-> "push data", result |-> FALSE]
    /\ UNCHANGED outside_entry

\* coding_shred_batches.push(batch) on the public field.
PushCodingBatch(batch) ==
    /\ Len(entry.coding_shred_batches) < MaxBatches
    /\ entry' = [entry EXCEPT !.coding_shred_batches = Append(@, batch)]
    /\ entry_call' = [op |-> "push coding", result |-> FALSE]
    /\ UNCHANGED outside_entry

\* SlotCachedTransmitShreds::contains_all_shreds
ContainsAllShreds ==
    /\ entry_call' = [op |-> "contains_all_shreds",
                      result |-> contains_all_shreds(entry)]
    /\ UNCHANGED entry
    /\ UNCHANGED outside_entry

NextEntry ==
    \/ \E batch \in EntryBatch(TRUE) : PushDataBatch(batch)
    \/ \E batch \in EntryBatch(FALSE) : PushCodingBatch(batch)
    \/ ContainsAllShreds

\* ------------------------------------------------------------------------
\* Window service: the shred filter
\* ------------------------------------------------------------------------

\* blockstore::MAX_DATA_SHREDS_PER_SLOT
MAX_DATA_SHREDS_PER_SLOT == 32768

\* The identities: the local node, the leader of a slot, another node.
Pubkey == {"me", "leader", "other"}

\* Option<Pubkey>::None
NoLeader == "None"

\* The slots of the shreds received and of the root.
WindowSlot == 0..MaxRoot

\* (slot, parent) of a shred: the parent is below the slot, slot 0 being its
\* own parent.
SlotAndParent ==
    {sp \in WindowSlot \X WindowSlot : sp[2] < sp[1] \/ sp = <<0, 0>>}

\* The indices of the shreds received: the first, the last one a slot can
\* hold and the one after it.
WindowIndex == {0, MAX_DATA_SHREDS_PER_SLOT - 1, MAX_DATA_SHREDS_PER_SLOT}

\* A Shred, as far as the window service looks at it, and the key that signed
\* it.
WindowShred ==
    {[slot |-> sp[1], parent |-> sp[2], index |-> i, version |-> v,
      is_data |-> d, signer |-> k] :
        sp \in SlotAndParent, i \in WindowIndex, v \in {0, 1},
        d \in BOOLEAN, k \in Pubkey}

\* Option<Arc<Bank>>
NoWorkingBank == "None"

BankOption == {NoWorkingBank, "bank"}

\* LeaderScheduleCache: the leaders it has cached by slot and the leaders it
\* can compute from a bank by slot. The caches tried: one that knows no
\* leader, one that knows another node as leader of every slot, one that
\* knows the local node, one that needs a bank to tell the leader.
LeaderScheduleCache ==
    {[cached |-> [s \in WindowSlot |-> c], computed |-> [s \in WindowSlot |-> b]] :
        <<c, b>> \in {<<NoLeader, NoLeader>>, <<"leader", "leader">>,
                      <<"me", "me">>, <<NoLeader, "leader">>}}

\* LeaderScheduleCache::slot_leader_at
slot_leader_at(leader_schedule_cache, slot, bank) ==
    IF leader_schedule_cache.cached[slot] # NoLeader
    THEN leader_schedule_cache.cached[slot]
    ELSE IF bank = NoWorkingBank THEN NoLeader
    ELSE leader_schedule_cache.computed[slot]

\* blockstore::is_valid_write_to_slot_0
is_valid_write_to_slot_0(slot_to_write, parent_slot, last_root) ==
    slot_to_write = 0 /\ last_root = 0 /\ parent_slot = 0

\* blockstore::verify_shred_slots
verify_shred_slots(slot, parent_slot, last_root) ==
    IF ~is_valid_write_to_slot_0(slot, parent_slot, last_root)
    THEN IF parent_slot >= slot THEN FALSE
         ELSE IF parent_slot < last_root THEN FALSE
         ELSE TRUE
    ELSE TRUE

\* verify_shred_slot
verify_shred_slot(a_shred, last_root) ==
    IF a_shred.is_data
    THEN verify_shred_slots(a_shred.slot, a_shred.parent, last_root)
    ELSE a_shred.slot >= last_root

\* A mutant of should_retransmit_and_persist: the version is not compared.
should_retransmit_and_persist_any_version(a_shred, bank, leader_schedule_cache, my_pubkey, last_root, shred_version) ==
    LET slot_leader_pubkey ==
            slot_leader_at(leader_schedule_cache, a_shred.slot, bank)
    IN  IF slot_leader_pubkey # NoLeader
        THEN IF slot_leader_pubkey = my_pubkey THEN FALSE
             ELSE IF ~verify_shred_slot(a_shred, last_root) THEN FALSE
             ELSE IF a_shred.index >= MAX_DATA_SHREDS_PER_SLOT THEN FALSE
             ELSE TRUE
        ELSE FALSE

\* should_retransmit_and_persist
should_retransmit_and_persist(a_shred, bank, leader_schedule_cache, my_pubkey, last_root, shred_version) ==
    LET slot_leader_pubkey ==
            slot_leader_at(leader_schedule_cache, a_shred.slot, bank)
    IN  IF slot_leader_pubkey # NoLeader
        THEN IF slot_leader_pubkey = my_pubkey THEN FALSE
             ELSE IF ~verify_shred_slot(a_shred, last_root) THEN FALSE
             ELSE IF a_shred.version # shred_version THEN FALSE
             ELSE IF a_shred.index >= MAX_DATA_SHREDS_PER_SLOT THEN FALSE
             ELSE TRUE
        ELSE FALSE

\* No call of the filter made yet.
NoFilterCall == [op |-> "none"]

\* should_retransmit_and_persist called for a shred: the call, the expected
\* leader of the shred's slot and the result. The filter keeps nothing from
\* one call to the next, so one call is followed from the initial state.
ShouldRetransmitAndPersist(a_shred, bank, leader_schedule_cache, my_pubkey, last_root, shred_version) ==
    /\ filter_call = NoFilterCall
    /\ filter_call' =
            [op |-> "should_retransmit_and_persist",
             shred |-> a_shred,
             leader |-> slot_leader_at(leader_schedule_cache, a_shred.slot, bank),
             my_pubkey |-> my_pubkey,
             root |-> last_root,
             shred_version |-> shred_version,
             result |-> should_retransmit_and_persist(a_shred, bank,
                            leader_schedule_cache, my_pubkey, last_root,
                            shred_version)]
    /\ UNCHANGED outside_filter

NextFilter ==
    \E a_shred \in WindowShred, bank \in BankOption,
       leader_schedule_cache \in LeaderScheduleCache,
       last_root \in WindowSlot, shred_version \in {0, 1} :
        ShouldRetransmitAndPersist(a_shred, bank, leader_schedule_cache, "me",
                                   last_root, shred_version)

\* ------------------------------------------------------------------------
\* Window service: recv_window
\* ------------------------------------------------------------------------

\* A shred of the leader's, version 0.
window_shred(slot, parent, i, data) ==
    [slot |-> slot, parent |-> parent, index |-> i, version |-> 0,
     is_data |-> data, signer |-> "leader"]

\* Packet.data that Shred::new_from_serialized_shred does not take: no shred.
Garbage ==
    [slot |-> -1, parent |-> -1, index |-> -1, version |-> -1,
     is_data |-> FALSE, signer |-> "None"]

\* A Packet: meta.discard and what its data deserializes to.
packet(discard, data) == [discard |-> discard, data |-> data]

\* The packets received: data and coding shreds of slot 1 at index 0, at the
\* last index of a slot and at the one after it, a data shred of slot 2,
\* whose leader is the local node, bytes that are no shred, and a packet
\* that arrives discarded.
RecvPacket ==
    {packet(FALSE, window_shred(1, 0, 0, TRUE)),
     packet(FALSE, window_shred(1, 0, 0, FALSE)),
     packet(FALSE, window_shred(1, 0, MAX_DATA_SHREDS_PER_SLOT - 1, TRUE)),
     packet(FALSE, window_shred(1, 0, MAX_DATA_SHREDS_PER_SLOT, TRUE)),
     packet(FALSE, window_shred(1, 0, MAX_DATA_SHREDS_PER_SLOT, FALSE)),
     packet(FALSE, window_shred(2, 1, 0, TRUE)),
     packet(FALSE, Garbage),
     packet(TRUE, window_shred(1, 0, 0, TRUE))}

\* Sequences of at most n elements of a set.
RECURSIVE SeqUpTo(_, _)
SeqUpTo(S, n) ==
    IF n = 0 THEN {<<>>}
    ELSE LET shorter == SeqUpTo(S, n - 1)
         IN  shorter \cup {Append(q, x) : q \in {r \in shorter : Len(r) = n - 1},
                                          x \in S}

\* Packets: a batch of packets.
Packets == SeqUpTo(RecvPacket, MaxPackets)

\* What one wake-up drains from verified_receiver: the batch recv_timeout
\* gives and the batches try_recv gives after it.
Drained == {<<first>> : first \in Packets}
                \cup {<<first, more>> : first \in Packets, more \in Packets}

\* The leader schedule of the window service: the local node leads slot 2,
\* another node the other slots.
WindowLeaders ==
    [cached |-> [s \in WindowSlot |-> IF s = 2 THEN "me" ELSE "leader"],
     computed |-> [s \in WindowSlot |-> NoLeader]]

\* The shred_filter closure of start_recv_window_thread, for the filter
\* should_retransmit_and_persist at version 0.
shred_filter(a_shred, last_root) ==
    should_retransmit_and_persist(a_shred, "bank", WindowLeaders, "me",
                                  last_root, 0)

\* A mutant of filter_packet: the slot is marked dead only from the index
\* MAX_DATA_SHREDS_PER_SLOT on.
filter_packet_dead_beyond_last(p, last_root) ==
    IF p.discard THEN [packet |-> p, shred |-> <<>>, dead |-> {}]
    ELSE IF p.data # Garbage
    THEN IF shred_filter(p.data, last_root)
         THEN [packet |-> p,
               shred |-> <<p.data>>,
               dead |-> IF p.data.index >= MAX_DATA_SHREDS_PER_SLOT
                        THEN {p.data.slot} ELSE {}]
         ELSE [packet |-> [p EXCEPT !.discard = TRUE], shred |-> <<>>, dead |-> {}]
    ELSE [packet |-> [p EXCEPT !.discard = TRUE], shred |-> <<>>, dead |-> {}]

\* recv_window, the filter_map closure on one packet: the packet as it is
\* left, the shred passed on if any, the slot marked dead if any.
filter_packet(p, last_root) ==
    IF p.discard THEN [packet |-> p, shred |-> <<>>, dead |-> {}]
    ELSE IF p.data # Garbage
    THEN IF shred_filter(p.data, last_root)
         THEN [packet |-> p,
               shred |-> <<p.data>>,
               dead |-> IF p.data.index >= MAX_DATA_SHREDS_PER_SLOT - 1
                        THEN {p.data.slot} ELSE {}]
         ELSE [packet |-> [p EXCEPT !.discard = TRUE], shred |-> <<>>, dead |-> {}]
    ELSE [packet |-> [p EXCEPT !.discard = TRUE], shred |-> <<>>, dead |-> {}]

\* The concatenation of a sequence of sequences.
RECURSIVE concat(_)
concat(seqs) == IF seqs = <<>> THEN <<>> ELSE Head(seqs) \o concat(Tail(seqs))

\* recv_window, the filter pass over the drained batches.
filter_batch(batch, last_root) ==
    <<>> \o [k \in DOMAIN batch |-> filter_packet(batch[k], last_root)]

filter_pass(batches, last_root) ==
    <<>> \o [b \in DOMAIN batches |-> filter_batch(batches[b], last_root)]

\* The batches that are not empty, in order.
RECURSIVE non_empty(_)
non_empty(batches) ==
    IF batches = <<>> THEN <<>>
    ELSE IF Head(batches) = <<>> THEN non_empty(Tail(batches))
    ELSE <<Head(batches)>> \o non_empty(Tail(batches))

\* No wake-up yet.
NoRecvCall == [op |-> "none"]

\* Nothing was sent to the insert channel.
NotSent == "not sent"

\* recv_window where recv_timeout fails: the error is returned at once.
RecvWindowNothing(e) ==
    /\ recv_call = NoRecvCall
    /\ recv_call' = [op |-> "recv_window", packets |-> <<>>, root |-> 0,
                     retransmit |-> <<>>, insert |-> NotSent, result |-> e]
    /\ UNCHANGED dead_slots
    /\ UNCHANGED outside_recv

\* recv_window on the batches of one wake-up: the filter pass, the slots
\* marked dead, the batches sent to retransmit, the shreds sent to insertion.
\* It keeps nothing from one wake-up to the next, so one wake-up is followed
\* from the initial state.
RecvWindow(batches, last_root, insert_connected) ==
    /\ recv_call = NoRecvCall
    /\ LET passed == filter_pass(batches, last_root)
           left == <<>> \o [b \in DOMAIN passed |->
                        <<>> \o [k \in DOMAIN passed[b] |-> passed[b][k].packet]]
           shreds == concat(<<>> \o [b \in DOMAIN passed |->
                        concat(<<>> \o [k \in DOMAIN passed[b] |-> passed[b][k].shred])])
           dead == UNION {UNION {passed[b][k].dead : k \in DOMAIN passed[b]} :
                            b \in DOMAIN passed}
       IN  /\ dead_slots' = dead_slots \cup dead
           /\ recv_call' =
                [op |-> "recv_window",
                 packets |-> batches,
                 root |-> last_root,
                 retransmit |-> non_empty(left),
                 insert |-> IF insert_connected THEN shreds ELSE NotSent,
                 result |-> IF insert_connected THEN "Ok" ELSE "SendError"]
    /\ UNCHANGED outside_recv

NextRecv ==
    \/ \E e \in {"Timeout", "Disconnected"} : RecvWindowNothing(e)
    \/ \E batches \in Drained, last_root \in {0, 1}, insert_connected \in BOOLEAN :
            RecvWindow(batches, last_root, insert_connected)

\* ------------------------------------------------------------------------
\* Window service: run_check_duplicate
\* ------------------------------------------------------------------------

\* The slots of the shreds the insertion hands to the duplicate check.
DupSlot == {0, 1}

\* A Shred, as far as run_check_duplicate looks at it.
dup_shred(slot, i, payload) == [slot |-> slot, index |-> i, payload |-> payload]

\* The shreds handed over: at index 0 with the payload the blockstore may
\* hold there or with another one, and at index 1, where it holds nothing.
DupShred ==
    {dup_shred(s, ip[1], ip[2]) :
        s \in DupSlot, ip \in {<<0, "a">>, <<0, "b">>, <<1, "b">>}}

\* Blockstore::has_duplicate_shreds_in_slot
has_duplicate_shreds_in_slot(proofs, slot) == proofs[slot] # <<>>

\* Option<Vec<u8>>::None
NoPayload == "None"

\* Blockstore::is_shred_duplicate: the payload held at (slot, index) when it
\* is not the payload given.
is_shred_duplicate(held, slot, i, payload) ==
    IF <<slot, i>> \in DOMAIN held /\ held[<<slot, i>>] # payload
    THEN held[<<slot, i>>]
    ELSE NoPayload

\* Blockstore::store_duplicate_slot, when the write succeeds.
store_duplicate_slot(proofs, slot, shred1, shred2) ==
    [proofs EXCEPT ![slot] = Append(@, [shred1 |-> shred1, shred2 |-> shred2])]

\* A mutant of check_duplicate: the slot's evidence is not looked at first.
check_duplicate_unguarded(st, a_shred, storage_ok) ==
    LET existing_shred_payload ==
            is_shred_duplicate(held_shreds, a_shred.slot, a_shred.index, a_shred.payload)
    IN  IF existing_shred_payload # NoPayload
        THEN IF storage_ok
             THEN [st EXCEPT !.proofs = store_duplicate_slot(@, a_shred.slot,
                                    existing_shred_payload, a_shred.payload)]
             ELSE [st EXCEPT !.result = "BlockstoreError"]
        ELSE st

\* run_check_duplicate, the closure check_duplicate on st = (proofs, result).
check_duplicate(st, a_shred, storage_ok) ==
    IF ~has_duplicate_shreds_in_slot(st.proofs, a_shred.slot)
    THEN LET existing_shred_payload ==
                is_shred_duplicate(held_shreds, a_shred.slot, a_shred.index,
                                   a_shred.payload)
         IN  IF existing_shred_payload # NoPayload
             THEN IF storage_ok
                  THEN [st EXCEPT !.proofs = store_duplicate_slot(@, a_shred.slot,
                                        existing_shred_payload, a_shred.payload)]
                  ELSE [st EXCEPT !.result = "BlockstoreError"]
             ELSE st
    ELSE st

\* run_check_duplicate, the shreds received one after the other: the first
\* error ends the run, the shreds after it are left in the channel.
RECURSIVE check_duplicates(_, _, _)
check_duplicates(st, shreds, storage_ok) ==
    IF shreds = <<>> THEN st
    ELSE LET checked == check_duplicate(st, Head(shreds), storage_ok)
         IN  IF checked.result # "Ok" THEN checked
             ELSE check_duplicates(
                      [checked EXCEPT !.processed = Append(@, Head(shreds))],
                      Tail(shreds), storage_ok)

\* No run yet.
NoDupCall == [op |-> "none", processed |-> <<>>, result |-> "Ok"]

\* Blockstore::insert_shreds stores the shred of a slot at index 0.
StoreShred(slot) ==
    /\ <<slot, 0>> \notin DOMAIN held_shreds
    /\ held_shreds' = [x \in DOMAIN held_shreds \cup {<<slot, 0>>} |->
                    IF x = <<slot, 0>> THEN "a" ELSE held_shreds[x]]
    /\ dup_call' = [op |-> "insert_shreds", processed |-> <<>>, result |-> "Ok"]
    /\ UNCHANGED duplicate_slots
    /\ UNCHANGED outside_dup

\* run_check_duplicate where recv_timeout fails.
RunCheckDuplicateNothing(e) ==
    /\ dup_call' = [op |-> "run_check_duplicate", processed |-> <<>>, result |-> e]
    /\ UNCHANGED <<held_shreds, duplicate_slots>>
    /\ UNCHANGED outside_dup

\* run_check_duplicate on the shreds in the channel; the blockstore takes
\* writes or fails them.
RunCheckDuplicate(shreds, storage_ok) ==
    /\ shreds # <<>>
    /\ LET st == check_duplicates(
                    [proofs |-> duplicate_slots, processed |-> <<>>, result |-> "Ok"],
                    shreds, storage_ok)
       IN  /\ duplicate_slots' = st.proofs
           /\ dup_call' = [op |-> "run_check_duplicate",
                           processed |-> IF st.result = "Ok" THEN st.processed
                                         ELSE Append(st.processed,
                                                shreds[Len(st.processed) + 1]),
                           result |-> st.result]
    /\ UNCHANGED held_shreds
    /\ UNCHANGED outside_dup

NextDup ==
    \/ \E slot \in DupSlot : StoreShred(slot)
    \/ \E e \in {"Timeout", "Disconnected"} : RunCheckDuplicateNothing(e)
    \/ \E shreds \in SeqUpTo(DupShred, MaxDrained), storage_ok \in BOOLEAN :
            RunCheckDuplicate(shreds, storage_ok)

\* ------------------------------------------------------------------------
\* Window service: the worker threads
\* ------------------------------------------------------------------------

\* t_window, t_insert, t_check_duplicate
Worker == {"window", "insert", "check_duplicate"}

\* The channel a worker receives from: verified_receiver, insert_receiver,
\* duplicate_receiver.
receiver_of(w) ==
    IF w = "window" THEN "verified"
    ELSE IF w = "insert" THEN "insert"
    ELSE "duplicate"

Channel == {"verified", "insert", "duplicate"}

\* A channel has a sender while the thread that owns its sender runs: the
\* sender of the verified channel is outside the service, insert_sender is
\* owned by the window thread, duplicate_sender by the insert thread.
has_sender(ch) ==
    IF ch = "verified" THEN verified_connected
    ELSE IF ch = "insert" THEN pc["window"] # "done"
    ELSE pc["insert"] # "done"

\* A channel has its receiver while the worker that receives from it runs.
has_receiver(ch) ==
    IF ch = "insert" THEN pc["insert"] # "done"
    ELSE IF ch = "duplicate" THEN pc["check_duplicate"] # "done"
    ELSE pc["window"] # "done"

\* send on an unbounded channel; the model counts the messages of a channel up to
\* MaxQueued.
send(q, ch) == [q EXCEPT ![ch] = min(@ + 1, MaxQueued)]

\* A mutant of finalizer: the window thread ends and leaves the flag as it is.
finalizer_forgotten(w, flag) == flag

\* Finalizer::drop: the window thread sets the exit flag when it ends.
finalizer(w, flag) == IF w = "window" THEN TRUE ELSE flag

\* A mutant of should_exit_on_error: a timeout ends the worker too.
should_exit_on_error_timeout_exits(e) ==
    IF e = "Disconnected" THEN [exit |-> TRUE, counted |-> FALSE]
    ELSE IF e = "Timeout" THEN [exit |-> TRUE, counted |-> FALSE]
    ELSE [exit |-> FALSE, counted |-> TRUE]

\* WindowService::should_exit_on_error: whether the worker ends, and
\* whether handle_error counted and logged the error.
should_exit_on_error(e) ==
    IF e = "Disconnected" THEN [exit |-> TRUE, counted |-> FALSE]
    ELSE IF e = "Timeout" THEN [exit |-> FALSE, counted |-> FALSE]
    ELSE [exit |-> FALSE, counted |-> TRUE]

\* No step of a worker yet.
NoWorkerEvent == [worker |-> "none", outcome |-> "none", counted |-> FALSE]

\* A step outside the workers.
OutsideEvent(what) == [worker |-> "none", outcome |-> what, counted |-> FALSE]

\* The run of a worker ended with the error e: the loop goes on or breaks.
on_error(w, e) ==
    /\ pc' = [pc EXCEPT ![w] = IF should_exit_on_error(e).exit THEN "done"
                                ELSE "loop"]
    /\ exit_flag' = IF should_exit_on_error(e).exit
                    THEN finalizer(w, exit_flag) ELSE exit_flag
    /\ worker_event' = [worker |-> w, outcome |-> e,
                        counted |-> should_exit_on_error(e).counted]

\* The top of a worker's loop: exit.load(), break if it is set.
LoopTop(w) ==
    /\ pc[w] = "loop"
    /\ pc' = [pc EXCEPT ![w] = IF exit_flag THEN "done" ELSE "recv"]
    /\ exit_flag' = IF exit_flag THEN finalizer(w, exit_flag) ELSE exit_flag
    /\ worker_event' = [worker |-> w,
                        outcome |-> IF exit_flag THEN "exit" ELSE "run",
                        counted |-> FALSE]
    /\ UNCHANGED <<in_channel, verified_connected>>
    /\ UNCHANGED outside_workers

\* recv_timeout(timer) at the start of run_check_duplicate, run_insert,
\* recv_window: a message, or Disconnected when the channel is empty and has
\* no sender, or Timeout when it is empty at the end of the timer.
RecvTimeout(w) ==
    /\ pc[w] = "recv"
    /\ IF in_channel[receiver_of(w)] > 0
       THEN /\ in_channel' = [in_channel EXCEPT ![receiver_of(w)] = @ - 1]
            /\ pc' = [pc EXCEPT ![w] = IF w = "check_duplicate" THEN "check"
                                        ELSE "drain"]
            /\ worker_event' = [worker |-> w, outcome |-> "received",
                                counted |-> FALSE]
            /\ UNCHANGED exit_flag
       ELSE /\ on_error(w, IF has_sender(receiver_of(w)) THEN "Timeout"
                           ELSE "Disconnected")
            /\ UNCHANGED in_channel
    /\ UNCHANGED verified_connected
    /\ UNCHANGED outside_workers

\* while let Ok(..) = try_recv(): one more message, or the end of the loop.
TryRecv(w) ==
    /\ pc[w] = "drain"
    /\ IF in_channel[receiver_of(w)] > 0
       THEN /\ in_channel' = [in_channel EXCEPT ![receiver_of(w)] = @ - 1]
            /\ pc' = [pc EXCEPT ![w] = IF w = "check_duplicate" THEN "check"
                                        ELSE "drain"]
            /\ worker_event' = [worker |-> w, outcome |-> "received",
                                counted |-> FALSE]
       ELSE /\ UNCHANGED in_channel
            /\ pc' = [pc EXCEPT ![w] = IF w = "check_duplicate" THEN "loop"
                                        ELSE "process"]
            /\ worker_event' = [worker |-> w,
                                outcome |-> IF w = "check_duplicate" THEN "Ok"
                                            ELSE "drained",
                                counted |-> FALSE]
    /\ UNCHANGED <<exit_flag, verified_connected>>
    /\ UNCHANGED outside_workers

\* recv_window after the drain: the filter pass, then the shreds are sent to
\* the insert channel; the send fails when the insert thread has ended.
WindowProcess ==
    /\ pc["window"] = "process"
    /\ IF has_receiver("insert")
       THEN /\ in_channel' = send(in_channel, "insert")
            /\ pc' = [pc EXCEPT !["window"] = "loop"]
            /\ worker_event' = [worker |-> "window", outcome |-> "Ok",
                                counted |-> FALSE]
            /\ UNCHANGED exit_flag
       ELSE /\ on_error("window", "SendError")
            /\ UNCHANGED in_channel
    /\ UNCHANGED verified_connected
    /\ UNCHANGED outside_workers

\* run_insert after the drain: insert_shreds_handle_duplicate, which hands
\* duplicates shreds to the duplicate channel and succeeds or fails.
InsertProcess(duplicates, storage_ok) ==
    /\ pc["insert"] = "process"
    /\ in_channel' = IF duplicates /\ has_receiver("duplicate")
                 THEN send(in_channel, "duplicate") ELSE in_channel
    /\ IF storage_ok
       THEN /\ pc' = [pc EXCEPT !["insert"] = "loop"]
            /\ worker_event' = [worker |-> "insert", outcome |-> "Ok",
                                counted |-> FALSE]
            /\ UNCHANGED exit_flag
       ELSE on_error("insert", "BlockstoreError")
    /\ UNCHANGED verified_connected
    /\ UNCHANGED outside_workers

\* run_check_duplicate, check_duplicate(shred)? on the shred received.
CheckDuplicate(storage_ok) ==
    /\ pc["check_duplicate"] = "check"
    /\ IF storage_ok
       THEN /\ pc' = [pc EXCEPT !["check_duplicate"] = "drain"]
            /\ worker_event' = [worker |-> "check_duplicate",
                                outcome |-> "checked", counted |-> FALSE]
            /\ UNCHANGED exit_flag
       ELSE on_error("check_duplicate", "BlockstoreError")
    /\ UNCHANGED <<in_channel, verified_connected>>
    /\ UNCHANGED outside_workers

\* exit.store(true) by the owner of the service.
SetExit ==
    /\ ~exit_flag
    /\ exit_flag' = TRUE
    /\ worker_event' = OutsideEvent("exit.store(true)")
    /\ UNCHANGED <<pc, in_channel, verified_connected>>
    /\ UNCHANGED outside_workers

\* The stage before the service sends verified packets.
SendVerified ==
    /\ verified_connected
    /\ in_channel["verified"] < MaxQueued
    /\ in_channel' = send(in_channel, "verified")
    /\ worker_event' = OutsideEvent("send")
    /\ UNCHANGED <<pc, exit_flag, verified_connected>>
    /\ UNCHANGED outside_workers

\* The stage before the service drops its sender.
DropSender ==
    /\ verified_connected
    /\ verified_connected' = FALSE
    /\ worker_event' = OutsideEvent("drop")
    /\ UNCHANGED <<pc, exit_flag, in_channel>>
    /\ UNCHANGED outside_workers

\* The steps of one worker.
WorkerStep(w) ==
    \/ LoopTop(w)
    \/ RecvTimeout(w)
    \/ TryRecv(w)
    \/ (w = "window" /\ WindowProcess)
    \/ (w = "insert" /\ \E duplicates \in BOOLEAN, storage_ok \in BOOLEAN :
                            InsertProcess(duplicates, storage_ok))
    \/ (w = "check_duplicate" /\ \E storage_ok \in BOOLEAN :
                            CheckDuplicate(storage_ok))

NextWorkers ==
    \/ \E w \in Worker : LoopTop(w)
    \/ \E w \in Worker : RecvTimeout(w)
    \/ \E w \in Worker : TryRecv(w)
    \/ WindowProcess
    \/ \E duplicates \in BOOLEAN, storage_ok \in BOOLEAN :
            InsertProcess(duplicates, storage_ok)
    \/ \E storage_ok \in BOOLEAN : CheckDuplicate(storage_ok)
    \/ SetExit
    \/ SendVerified
    \/ DropSender

\* A panic in the window thread (the unwrap of the thread pool's build, of
\* the fork manager's lock in the filter closure, a panic below recv_window):
\* the stack unwinds and the Finalizer is dropped.
WindowPanic ==
    /\ pc["window"] # "done"
    /\ pc' = [pc EXCEPT !["window"] = "done"]
    /\ exit_flag' = finalizer("window", exit_flag)
    /\ worker_event' = [worker |-> "window", outcome |-> "panic",
                        counted |-> FALSE]
    /\ UNCHANGED <<in_channel, verified_connected>>
    /\ UNCHANGED outside_workers

\* ------------------------------------------------------------------------
\* One peer's outstanding requests, requests that expect nothing included
\* ------------------------------------------------------------------------

\* The requests given to one node: they ask for shred 0 and expect from no
\* response at all up to MaxExpected responses.
NodeRequest == [key : {0}, expected : 0..MaxExpected]

\* No request: what a nonce that was never given out stands for.
NoRequest == [key |-> -1, expected |-> 0]

\* No call on the node yet.
NoNodeCall == [op |-> "default", nonce |-> u32(0), result |-> FALSE]

\* The request a nonce was last given to, and how many times
\* register_response has returned true for it.
answered_of(m, nonce) ==
    IF nonce \in DOMAIN m THEN m[nonce] ELSE [request |-> NoRequest, trues |-> 0]

\* NodeOutstandingRequests::add_request at the time of the clock.
NodeAddRequest(request) ==
    /\ node_calls < MaxNodeCalls
    /\ node_calls' = node_calls + 1
    /\ peer_node' = node_add_request(peer_node, request, node_now)
    /\ answered' = requests_insert(answered, peer_node.nonce,
                        [request |-> request, trues |-> 0])
    /\ node_call' = [op |-> "add_request", nonce |-> peer_node.nonce,
                     result |-> FALSE]
    /\ UNCHANGED node_now
    /\ UNCHANGED outside_node

\* NodeOutstandingRequests::register_response with the clock as `now`.
NodeRegisterResponse(nonce, response) ==
    /\ node_calls < MaxNodeCalls
    /\ node_calls' = node_calls + 1
    /\ LET r == node_register_response(peer_node, nonce, response, node_now)
           was == answered_of(answered, nonce)
       IN  /\ peer_node' = r.node
           /\ answered' = IF r.is_valid
                          THEN requests_insert(answered, nonce,
                                    [was EXCEPT !.trues = @ + 1])
                          ELSE answered
           /\ node_call' = [op |-> "register_response", nonce |-> nonce,
                            result |-> r.is_valid]
    /\ UNCHANGED node_now
    /\ UNCHANGED outside_node

\* Time passes between two calls: a millisecond, or the expiration.
NodeTick(d) ==
    /\ node_calls < MaxNodeCalls
    /\ node_calls' = node_calls + 1
    /\ node_now' = node_now + d
    /\ node_call' = [NoNodeCall EXCEPT !.op = "tick"]
    /\ UNCHANGED <<peer_node, answered>>
    /\ UNCHANGED outside_node

NextNode ==
    \/ \E q \in NodeRequest : NodeAddRequest(q)
    \/ \E s \in Response :
        \E n \in DOMAIN peer_node.requests \cup DOMAIN answered
                    \cup {peer_node.nonce} :
            NodeRegisterResponse(n, s)
    \/ \E d \in {1, DEFAULT_REQUEST_EXPIRATION_MS} : NodeTick(d)

\* ------------------------------------------------------------------------
\* Window service: from the filter to the storage call
\* ------------------------------------------------------------------------

\* recv_window from the filter pass on: the batches handed to retransmit and
\* the vector of shreds for insert_shred_sender.
recv_window_sends(batches, last_root) ==
    LET passed == filter_pass(batches, last_root)
    IN  [retransmit |-> non_empty(<<>> \o [b \in DOMAIN passed |->
                <<>> \o [k \in DOMAIN passed[b] |-> passed[b][k].packet]]),
         insert |-> concat(<<>> \o [b \in DOMAIN passed |->
                concat(<<>> \o [k \in DOMAIN passed[b] |-> passed[b][k].shred])])]

\* A mutant of run_insert_drain: each vector received replaces the one
\* before it.
run_insert_drain_keeps_last(queued) == queued[Len(queued)]

\* run_insert up to the storage call: the vector recv_timeout gave, the
\* vectors try_recv gave appended to it one after the other.
run_insert_drain(queued) == concat(queued)

\* No wake-up of either worker yet.
NoPipelineCall ==
    [op |-> "none", packets |-> <<>>, root |-> 0, retransmit |-> <<>>,
     result |-> "Ok"]

\* A wake-up of recv_window with the batches drained: the packets go to
\* retransmit, the shreds to the insert channel unless its receiver is gone.
PipelineRecvWindow(batches, last_root, insert_connected) ==
    /\ wakeups < MaxWakeups
    /\ wakeups' = wakeups + 1
    /\ LET sends == recv_window_sends(batches, last_root)
       IN  /\ insert_queue' = IF insert_connected
                              THEN Append(insert_queue, sends.insert)
                              ELSE insert_queue
           /\ send_failed' = (send_failed \/ ~insert_connected)
           /\ pipeline_call' =
                [op |-> "recv_window", packets |-> batches, root |-> last_root,
                 retransmit |-> sends.retransmit,
                 result |-> IF insert_connected THEN "Ok" ELSE "SendError"]
    /\ UNCHANGED insert_calls
    /\ UNCHANGED outside_pipeline

\* A wake-up of run_insert that finds vectors in the channel: it takes them
\* all and makes one call of insert_shreds_handle_duplicate, which storage
\* answers with Ok or with an error.
PipelineRunInsert(storage_ok) ==
    /\ insert_queue # <<>>
    /\ insert_calls' = Append(insert_calls, run_insert_drain(insert_queue))
    /\ insert_queue' = <<>>
    /\ pipeline_call' =
            [NoPipelineCall EXCEPT !.op = "run_insert",
                !.result = IF storage_ok THEN "Ok" ELSE "BlockstoreError"]
    /\ UNCHANGED <<send_failed, wakeups>>
    /\ UNCHANGED outside_pipeline

NextPipeline ==
    \/ \E batches \in Drained, last_root \in {0, 1}, insert_connected \in BOOLEAN :
            PipelineRecvWindow(batches, last_root, insert_connected)
    \/ \E storage_ok \in BOOLEAN : PipelineRunInsert(storage_ok)

\* ------------------------------------------------------------------------
\* Entry-verify worker on the shared fork manager
\* ------------------------------------------------------------------------

\* bank.parent() gave None.
NoParent == -1

\* Bank::parent: the slot of the bank this one was made from by
\* new_from_parent; the bank of Bank::new has none.
parent_of(bank) ==
    LET above == bank.ancestors \ {bank.slot}
    IN  IF above = {} THEN NoParent
        ELSE CHOOSE a \in above : \A b \in above : b <= a

ParentFault == "Unverified slot can't be the root, so parent must exist"

\* A mutant of verify_slot: the node is taken by index, not looked up.
verify_slot_by_index(bs, slot) ==
    IF slot \notin DOMAIN bs
    THEN [outcome |-> "panic", parent_slot |-> NoParent]
    ELSE IF parent_of(bs[slot]) = NoParent
         THEN [outcome |-> ParentFault, parent_slot |-> NoParent]
         ELSE [outcome |-> "added", parent_slot |-> parent_of(bs[slot])]

\* verify_entries, the block under the write lock for one queued slot: a
\* slot without a live node is passed over, the parent of a live node is
\* expected, and the block is added with its parent's slot.
verify_slot(bs, slot) ==
    IF slot \notin DOMAIN bs
    THEN [outcome |-> "skipped", parent_slot |-> NoParent]
    ELSE IF parent_of(bs[slot]) = NoParent
         THEN [outcome |-> ParentFault, parent_slot |-> NoParent]
         ELSE [outcome |-> "added", parent_slot |-> parent_of(bs[slot])]

\* Nothing taken from the channel yet.
NoVerifyCall == [op |-> "none", slot |-> 0, outcome |-> "none",
                 parent_slot |-> NoParent]

\* The sender of slot_receiver sends the entries of a slot: a live node that
\* has a parent, so not the node the fork manager was made with.
Deliver(slot) ==
    /\ fault = "none"
    /\ verify_call.outcome # ParentFault
    /\ Len(slot_receiver) < MaxDelivered
    /\ slot \in DOMAIN banks
    /\ parent_of(banks[slot]) # NoParent
    /\ slot_receiver' = Append(slot_receiver, slot)
    /\ verify_call' = [NoVerifyCall EXCEPT !.op = "send", !.slot = slot]
    /\ UNCHANGED forks_vars
    /\ UNCHANGED outside_verify

\* verify_entries takes the next queued slot and handles it holding the
\* write lock of the fork manager.
VerifySlot ==
    /\ fault = "none"
    /\ verify_call.outcome # ParentFault
    /\ slot_receiver # <<>>
    /\ slot_receiver' = Tail(slot_receiver)
    /\ verify_call' = [op |-> "verify_entries", slot |-> Head(slot_receiver),
                       outcome |-> verify_slot(banks, Head(slot_receiver)).outcome,
                       parent_slot |->
                            verify_slot(banks, Head(slot_receiver)).parent_slot]
    /\ UNCHANGED forks_vars
    /\ UNCHANGED outside_verify

\* The owner of the fork manager makes banks, inserts them and sets the
\* root, each call under the write lock, while slots are sent and verified.
NextVerify ==
    \/ \E p \in Slot, s \in Slot : NewBank(p, s)
    \/ Insert
    \/ \E r \in Slot : SetRoot(r)
    \/ \E s \in Slot : Deliver(s)
    \/ VerifySlot

\* ------------------------------------------------------------------------
\* The two stored forms of a shred index
\* ------------------------------------------------------------------------

\* ShredIndex::default(): the sorted set of the present indices.
ShredIndexDefault == [index |-> {}]

\* The largest index of a non-empty sorted set: the first of iter().rev().
last_of(set) == CHOOSE i \in set : \A j \in set : j <= i

\* ShredIndex::to_shred_index2: set_present(idx, true) on a default bitset
\* for each index of the set, from the largest to the smallest.
RECURSIVE set_each_rev(_, _)
set_each_rev(new_index, rest) ==
    IF rest = {} THEN new_index
    ELSE set_each_rev(set_present(new_index, last_of(rest), TRUE),
                      rest \ {last_of(rest)})

to_shred_index2(si) == set_each_rev(ShredIndex2Default, si.index)

\* A mutant of to_shred_index: the scan of the bitset starts at bit 1.
to_shred_index_from_one(si) ==
    [index |-> {idx \in 1..(bitvec_len(si.index) - 1) : is_present(si, idx)}]

\* ShredIndex2::to_shred_index: the indices below the length of the bitset
\* that is_present reports.
to_shred_index(si) ==
    [index |-> {idx \in 0..(bitvec_len(si.index) - 1) : is_present(si, idx)}]

\* Index::to_index2
to_index2(idx) ==
    [slot |-> idx.slot, data |-> to_shred_index2(idx.data),
     coding |-> to_shred_index2(idx.coding)]

\* Index2::to_index
to_index(idx2) ==
    [slot |-> idx2.slot, data |-> to_shred_index(idx2.data),
     coding |-> to_shred_index(idx2.coding)]

NoConvertCall == [op |-> "new", slot |-> 0]

\* An Index2 of the slot is made: Index2::new(slot).
ConvertNew(slot) ==
    /\ stored_index2' = Index2New(slot)
    /\ convert_call' = [op |-> "new", slot |-> slot]
    /\ UNCHANGED legacy_index
    /\ UNCHANGED outside_convert

\* data_mut().set_present(i, presence) or coding_mut() on the Index2.
ConvertSetPresent(which, i, presence) ==
    /\ stored_index2' = [stored_index2 EXCEPT ![which] = set_present(@, i, presence)]
    /\ convert_call' = [op |-> "set_present", slot |-> stored_index2.slot]
    /\ UNCHANGED legacy_index
    /\ UNCHANGED outside_convert

\* An Index written before the bitset form existed is read for the slot: any
\* set of indices, drawn for one of its two sorted sets at a time.
ConvertReadIndex(slot, which, set) ==
    /\ legacy_index' = [[legacy_index EXCEPT ![which] = [index |-> set]]
                            EXCEPT !.slot = slot]
    /\ convert_call' = [op |-> "read_index", slot |-> slot]
    /\ UNCHANGED stored_index2
    /\ UNCHANGED outside_convert

\* The Index2 is written in the sorted-set form: index2.to_index().
ConvertToIndex ==
    /\ legacy_index' = to_index(stored_index2)
    /\ convert_call' = [op |-> "to_index", slot |-> stored_index2.slot]
    /\ UNCHANGED stored_index2
    /\ UNCHANGED outside_convert

\* The Index is taken over in the bitset form: index.to_index2().
ConvertToIndex2 ==
    /\ stored_index2' = to_index2(legacy_index)
    /\ convert_call' = [op |-> "to_index2", slot |-> legacy_index.slot]
    /\ UNCHANGED legacy_index
    /\ UNCHANGED outside_convert

NextConvert ==
    \/ \E slot \in 0..1 : ConvertNew(slot)
    \/ \E w \in Which, i \in ShredIdx, v \in BOOLEAN : ConvertSetPresent(w, i, v)
    \/ \E slot \in 0..1, w \in Which, set \in SUBSET ShredIdx :
            ConvertReadIndex(slot, w, set)
    \/ ConvertToIndex
    \/ ConvertToIndex2

\* ------------------------------------------------------------------------
\* BankForks: snapshots
\* ------------------------------------------------------------------------

\* serialize_into(stream, bank): the state image of a node.
serialize_bank(bank) == <<bank.slot, bank.ancestors, bank.frozen>>

\* What File::create leaves when nothing was written after it.
EmptyFile == <<>>

\* deserialize_from(stream): Ok with the node of a state image, or the error
\* "deserialize bank error" for a file that does not hold a whole image.
deserialize_bank(image) ==
    IF Len(image) = 3
    THEN [ok |-> TRUE,
          bank |-> [slot |-> image[1], ancestors |-> image[2], frozen |-> image[3]]]
    ELSE [ok |-> FALSE, bank |-> NoBank]

\* names.sort(): the file names in ascending order.
RECURSIVE sort_names(_)
sort_names(names) ==
    IF names = {} THEN <<>>
    ELSE LET least == CHOOSE n \in names : \A m \in names : n <= m
         IN  <<least>> \o sort_names(names \ {least})

\* A mutant of load_step: last_slot is set by the first file loaded only.
load_step_keeps_first(acc, bank_slot, file) ==
    LET read == deserialize_bank(file)
    IN  IF ~read.ok THEN acc
        ELSE [banks |-> [x \in DOMAIN acc.banks \cup {bank_slot} |->
                            IF x = bank_slot THEN read.bank ELSE acc.banks[x]],
              slots |-> acc.slots \cup {bank_slot},
              last_slot |-> IF acc.slots = {} THEN bank_slot ELSE acc.last_slot]

\* One iteration of the loop of load_from_snapshot: a file that deserializes
\* is entered under its name and makes its name the last slot; any other is
\* passed over with a warning.
load_step(acc, bank_slot, file) ==
    LET read == deserialize_bank(file)
    IN  IF ~read.ok THEN acc
        ELSE [banks |-> [x \in DOMAIN acc.banks \cup {bank_slot} |->
                            IF x = bank_slot THEN read.bank ELSE acc.banks[x]],
              slots |-> acc.slots \cup {bank_slot},
              last_slot |-> bank_slot]

RECURSIVE load_loop(_, _, _)
load_loop(dir, names, acc) ==
    IF names = <<>> THEN acc
    ELSE load_loop(dir, Tail(names), load_step(acc, Head(names), dir[Head(names)]))

\* The loop of load_from_snapshot over the sorted names of the directory.
load_all(dir) ==
    load_loop(dir, sort_names(DOMAIN dir),
              [banks |-> <<>>, slots |-> {}, last_slot |-> 0])

\* No fork manager was loaded.
NoForks == [banks |-> <<>>, working_bank |-> NoBank, slots |-> {},
            use_snapshot |-> FALSE]

LoadFault == "load_from_snapshot: banks[&last_slot]: key not found"

NoSnapshotCall == [op |-> "none", slot |-> 0, result |-> "none", nodes |-> <<>>]

\* HashMap-like update of the directory or of the record of saved nodes.
with_entry(f, k, v) == [x \in DOMAIN f \cup {k} |-> IF x = k THEN v ELSE f[x]]

without_entry(f, k) == [x \in DOMAIN f \ {k} |-> f[x]]

\* add_snapshot(slot): the directory is made, the file created, and the live
\* node of the slot written to it (a panic when there is none); when the
\* write fails the file stays as created and the call returns the error.
AddSnapshot(slot, write_ok) ==
    /\ fault = "none" /\ snapshot_fault = "none"
    /\ snapshot_calls < MaxSnapshotCalls
    /\ snapshot_calls' = snapshot_calls + 1
    /\ dir_created' = TRUE
    /\ IF slot \notin DOMAIN banks
       THEN /\ snapshot_dir' = with_entry(snapshot_dir, slot, EmptyFile)
            /\ snapshot_fault' = SnapshotFault
            /\ snapshot_call' = [NoSnapshotCall EXCEPT !.op = "add_snapshot",
                                    !.slot = slot, !.result = "panic"]
            /\ UNCHANGED saved
       ELSE /\ snapshot_dir' = with_entry(snapshot_dir, slot,
                    IF write_ok THEN serialize_bank(banks[slot]) ELSE EmptyFile)
            /\ saved' = with_entry(saved, slot,
                    [bank |-> banks[slot], written |-> write_ok])
            /\ snapshot_call' = [NoSnapshotCall EXCEPT !.op = "add_snapshot",
                    !.slot = slot, !.result = IF write_ok THEN "ok" ELSE "err"]
            /\ UNCHANGED snapshot_fault
    /\ UNCHANGED loaded
    /\ UNCHANGED outside_snapshot

\* remove_snapshot(slot): the file of the slot is removed if there is one.
RemoveSnapshot(slot) ==
    /\ fault = "none" /\ snapshot_fault = "none"
    /\ snapshot_calls < MaxSnapshotCalls
    /\ snapshot_calls' = snapshot_calls + 1
    /\ snapshot_dir' = without_entry(snapshot_dir, slot)
    /\ snapshot_call' = [NoSnapshotCall EXCEPT !.op = "remove_snapshot",
                                            !.slot = slot, !.result = "ok"]
    /\ UNCHANGED <<saved, loaded, dir_created, snapshot_fault>>
    /\ UNCHANGED outside_snapshot

\* load_from_snapshot(): an error when the directory cannot be read; else
\* the files are loaded in the order of their names, and the node entered
\* under the last slot becomes the working node (a panic when no node was
\* entered under it). The record of the saved nodes is kept with the call
\* and starts afresh.
LoadFromSnapshot ==
    /\ fault = "none" /\ snapshot_fault = "none"
    /\ snapshot_calls < MaxSnapshotCalls
    /\ snapshot_calls' = snapshot_calls + 1
    /\ IF ~dir_created
       THEN /\ loaded' = NoForks
            /\ snapshot_call' = [op |-> "load_from_snapshot", slot |-> 0,
                                 result |-> "err", nodes |-> saved]
            /\ UNCHANGED snapshot_fault
       ELSE LET acc == load_all(snapshot_dir)
            IN  IF acc.last_slot \in DOMAIN acc.banks
                THEN /\ loaded' = [banks |-> acc.banks,
                                   working_bank |-> acc.banks[acc.last_slot],
                                   slots |-> acc.slots,
                                   use_snapshot |-> TRUE]
                     /\ snapshot_call' = [op |-> "load_from_snapshot",
                                          slot |-> acc.last_slot, result |-> "ok",
                                          nodes |-> saved]
                     /\ UNCHANGED snapshot_fault
                ELSE /\ loaded' = NoForks
                     /\ snapshot_fault' = LoadFault
                     /\ snapshot_call' = [op |-> "load_from_snapshot",
                                          slot |-> acc.last_slot, result |-> "panic",
                                          nodes |-> saved]
    /\ saved' = <<>>
    /\ UNCHANGED <<snapshot_dir, dir_created>>
    /\ UNCHANGED outside_snapshot

NextSnapshot ==
    \/ \E p \in Slot, s \in Slot : NewBank(p, s)
    \/ FreezeChild
    \/ Insert
    \/ \E s \in Slot, ok \in BOOLEAN : AddSnapshot(s, ok)
    \/ \E s \in Slot : RemoveSnapshot(s)
    \/ LoadFromSnapshot

\* ------------------------------------------------------------------------
\* Specifications
\* ------------------------------------------------------------------------

Init ==
    /\ banks = (0 :> GenesisBank)
    /\ working_bank = GenesisBank
    /\ root = 0
    /\ slots = {}
    /\ snapshot_files = {}
    /\ child_bank = NoBank
    /\ fault = "none"
    /\ persisted = {}
    /\ op = "new"
    /\ requests = <<>>
    /\ now = 0
    /\ steps = 0
    /\ call = NoCall
    /\ index = Index2New(0)
    /\ present = [w \in Which |-> {}]
    /\ index_call = NoIndexCall
    /\ slot_meta = SlotMetaNewOrphan(0)
    /\ meta_call = NoMetaCall
    /\ cache = <<>>
    /\ insertion_order = <<>>
    /\ queue_capacity = 0
    /\ capacity = 0
    /\ cache_fault = "none"
    /\ cache_calls = 0
    /\ pushed = <<>>
    /\ cache_call = NoCacheCall
    /\ entry = SlotCachedTransmitShredsDefault
    /\ entry_call = NoEntryCall
    /\ filter_call = NoFilterCall
    /\ dead_slots = {}
    /\ recv_call = NoRecvCall
    /\ held_shreds = <<>>
    /\ duplicate_slots = [s \in DupSlot |-> <<>>]
    /\ dup_call = NoDupCall
    /\ exit_flag = FALSE
    /\ pc = [w \in Worker |-> "loop"]
    /\ in_channel = [ch \in Channel |-> 0]
    /\ verified_connected = TRUE
    /\ worker_event = NoWorkerEvent
    /\ peer_node = NodeDefault
    /\ node_now = 0
    /\ node_calls = 0
    /\ answered = <<>>
    /\ node_call = NoNodeCall
    /\ insert_queue = <<>>
    /\ insert_calls = <<>>
    /\ send_failed = FALSE
    /\ wakeups = 0
    /\ pipeline_call = NoPipelineCall
    /\ slot_receiver = <<>>
    /\ verify_call = NoVerifyCall
    /\ stored_index2 = Index2New(0)
    /\ legacy_index = [slot |-> 0, data |-> ShredIndexDefault, coding |-> ShredIndexDefault]
    /\ convert_call = NoConvertCall
    /\ snapshot_dir = <<>>
    /\ dir_created = FALSE
    /\ saved = <<>>
    /\ loaded = NoForks
    /\ snapshot_fault = "none"
    /\ snapshot_calls = 0
    /\ snapshot_call = NoSnapshotCall

\* The fork manager alone.
SpecForks == Init /\ [][NextForks]_vars

\* The outstanding-request tracker alone.
SpecRequests == Init /\ [][NextRequests]_vars

\* The tracker after many requests: a peer's next nonce is one short of the
\* last one before the wrap (2^32 - 2), its earlier requests all answered or
\* expired; the other peer is new.
NearWrap == U32_MAX - 2

InitNonces ==
    /\ banks = (0 :> GenesisBank)
    /\ working_bank = GenesisBank
    /\ root = 0
    /\ slots = {}
    /\ snapshot_files = {}
    /\ child_bank = NoBank
    /\ fault = "none"
    /\ persisted = {}
    /\ op = "new"
    /\ requests = ("10.0.0.1" :> [requests |-> <<>>, nonce |-> NearWrap])
    /\ now = 0
    /\ steps = 0
    /\ call = NoCall
    /\ index = Index2New(0)
    /\ present = [w \in Which |-> {}]
    /\ index_call = NoIndexCall
    /\ slot_meta = SlotMetaNewOrphan(0)
    /\ meta_call = NoMetaCall
    /\ cache = <<>>
    /\ insertion_order = <<>>
    /\ queue_capacity = 0
    /\ capacity = 0
    /\ cache_fault = "none"
    /\ cache_calls = 0
    /\ pushed = <<>>
    /\ cache_call = NoCacheCall
    /\ entry = SlotCachedTransmitShredsDefault
    /\ entry_call = NoEntryCall
    /\ filter_call = NoFilterCall
    /\ dead_slots = {}
    /\ recv_call = NoRecvCall
    /\ held_shreds = <<>>
    /\ duplicate_slots = [s \in DupSlot |-> <<>>]
    /\ dup_call = NoDupCall
    /\ exit_flag = FALSE
    /\ pc = [w \in Worker |-> "loop"]
    /\ in_channel = [ch \in Channel |-> 0]
    /\ verified_connected = TRUE
    /\ worker_event = NoWorkerEvent
    /\ peer_node = NodeDefault
    /\ node_now = 0
    /\ node_calls = 0
    /\ answered = <<>>
    /\ node_call = NoNodeCall
    /\ insert_queue = <<>>
    /\ insert_calls = <<>>
    /\ send_failed = FALSE
    /\ wakeups = 0
    /\ pipeline_call = NoPipelineCall
    /\ slot_receiver = <<>>
    /\ verify_call = NoVerifyCall
    /\ stored_index2 = Index2New(0)
    /\ legacy_index = [slot |-> 0, data |-> ShredIndexDefault, coding |-> ShredIndexDefault]
    /\ convert_call = NoConvertCall
    /\ snapshot_dir = <<>>
    /\ dir_created = FALSE
    /\ saved = <<>>
    /\ loaded = NoForks
    /\ snapshot_fault = "none"
    /\ snapshot_calls = 0
    /\ snapshot_call = NoSnapshotCall

SpecNonces == InitNonces /\ [][NextRequests]_vars

\* The shred index of a slot and an erasure set of it.
SpecIndex == Init /\ [][NextIndex]_vars

\* A slot meta.
SpecMeta == Init /\ [][NextMeta]_vars

\* The transmit-shred cache.
SpecCache == Init /\ [][NextCache]_vars

\* The cached transmit shreds of one slot.
SpecEntry == Init /\ [][NextEntry]_vars

\* The shred filter of the window service.
SpecFilter == Init /\ [][NextFilter]_vars

\* One wake-up of recv_window.
SpecRecv == Init /\ [][NextRecv]_vars

\* The duplicate check of the window service.
SpecDup == Init /\ [][NextDup]_vars

\* The three worker threads of the window service.
SpecWorkers == Init /\ [][NextWorkers]_vars

\* One peer's outstanding requests.
SpecNode == Init /\ [][NextNode]_vars

\* The window service from the filter to the storage call.
SpecPipeline == Init /\ [][NextPipeline]_vars

\* The entry-verify worker and the owner of the fork manager.
SpecVerify == Init /\ [][NextVerify]_vars

\* The conversions between the two stored forms of a shred index.
SpecConvert == Init /\ [][NextConvert]_vars

\* The snapshots of the fork manager: saved, removed and loaded.
SpecSnapshot == Init /\ [][NextSnapshot]_vars

Next == NextForks \/ NextRequests \/ NextIndex \/ NextMeta \/ NextCache
        \/ NextEntry \/ NextFilter \/ NextRecv \/ NextDup \/ NextWorkers
        \/ NextNode \/ NextPipeline \/ NextVerify \/ NextConvert
        \/ NextSnapshot

\* The worker threads, each of them scheduled again and again: a thread
\* that can take a step does take one, every receive being bounded by its
\* timer.
SpecWorkersFair ==
    /\ Init
    /\ [][NextWorkers]_vars
    /\ \A w \in Worker : WF_vars(WorkerStep(w))

\* The worker threads scheduled as in SpecWorkersFair, the window thread
\* being one that may panic.
SpecShutdown ==
    /\ Init
    /\ [][NextWorkers \/ WindowPanic]_vars
    /\ \A w \in Worker : WF_vars(WorkerStep(w))

Spec == Init /\ [][Next]_vars

\* ------------------------------------------------------------------------
\* Fork manager: claims
\* ------------------------------------------------------------------------

\* The slots a map from slots to sets of slots mentions, as keys or members.
Mentioned(m) == DOMAIN m \cup UNION {m[k] : k \in DOMAIN m}

\* The root and the live nodes that have it among their ancestors.
RootDescendants == {root} \cup {s \in DOMAIN banks : root \in banks[s].ancestors}

\* A call of set_root has just returned.
SetRootReturned == op = "set_root" /\ fault = "none"

\* C1: after set_root(R), descendants() and ancestors() mention no slot, as a
\* key or as a member of a value, that is outside R's descendants.
C1_NoSlotOutsideRootDescendants ==
    SetRootReturned =>
        /\ Mentioned(descendants) \subseteq RootDescendants
        /\ Mentioned(ancestors) \subseteq RootDescendants

\* The live nodes that are not descendants of r.
NonDescendants(bs, r) == {s \in DOMAIN bs : r \notin bs[s].ancestors}

\* C2: set_root(R) removes every live node that is not a descendant of R, and
\* each of them that was frozen has its snapshot persisted by the call.
C2_PrunedFrozenPersisted ==
    [][(op' = "set_root" /\ fault = "none" /\ fault' = "none") =>
        \A s \in NonDescendants(banks, root') :
            /\ s \notin DOMAIN banks'
            /\ (s \in persisted' <=> banks[s].frozen)]_vars

\* C3: after set_root(R) returns, no snapshot file remains for a frozen node
\* that the call pruned as a non-descendant of R.
C3_NoSnapshotOfPrunedFrozen ==
    [][(op' = "set_root" /\ fault = "none" /\ fault' = "none") =>
        \A s \in NonDescendants(banks, root') :
            banks[s].frozen => s \notin snapshot_files']_vars

\* C4: every live node is a descendant of the current root, and the root is a
\* live node whose ancestor set is empty.
C4_LiveNodesDescendFromRoot ==
    fault = "none" =>
        /\ \A s \in DOMAIN banks : root \in banks[s].ancestors
        /\ root \in DOMAIN banks
        /\ ancestors[root] = {}

\* C5: the working node is the node last inserted and is one of the live nodes.
C5_WorkingBankIsLive ==
    fault = "none" =>
        /\ working_bank.slot \in DOMAIN banks
        /\ banks[working_bank.slot] = working_bank

\* C6: insert for a slot with no live node adds the node, makes it the working
\* node and leaves the other nodes and the root as they were; insert for a
\* slot that has a live node ends in the assertion's panic, after which no
\* call is made.
C6_InsertAddsOrFaults ==
    [][/\ (op' = "insert" /\ child_bank # NoBank) =>
            IF child_bank.slot \notin DOMAIN banks
            THEN /\ fault' = "none"
                 /\ DOMAIN banks' = DOMAIN banks \cup {child_bank.slot}
                 /\ banks'[child_bank.slot] = child_bank
                 /\ \A s \in DOMAIN banks : banks'[s] = banks[s]
                 /\ working_bank' = child_bank
                 /\ root' = root
            ELSE /\ fault' = InsertFault
                 /\ working_bank' = working_bank
       /\ fault = InsertFault => UNCHANGED vars]_vars

\* A duplicate insert, after an insert that went well, has panicked.
C6_Witness == fault = InsertFault /\ Cardinality(DOMAIN banks) >= 2

\* C7: set_root for a slot with no live node ends in a panic: no node is
\* pruned, no snapshot file is touched, and no call is made after it.
C7_SetRootMissingFaults ==
    [][/\ (op' = "set_root" /\ fault = "none" /\ root' \notin DOMAIN banks) =>
            /\ fault' = RootFault
            /\ banks' = banks
            /\ working_bank' = working_bank
            /\ snapshot_files' = snapshot_files
       /\ fault = RootFault => UNCHANGED vars]_vars

\* set_root for a slot without a live node has panicked with nodes left.
C7_Witness == fault = RootFault /\ root \notin DOMAIN banks /\ DOMAIN banks # {}

\* C8: ancestors() maps each live slot to its node's ancestors without the
\* slot, descendants() has a key for each live slot, and s is in
\* descendants()[a] exactly when s is live and a is in ancestors()[s].
C8_AncestorsDescendantsInverse ==
    LET anc == ancestors
        desc == descendants
    IN  /\ DOMAIN anc = DOMAIN banks
        /\ \A s \in DOMAIN banks : anc[s] = banks[s].ancestors \ {s}
        /\ DOMAIN banks \subseteq DOMAIN desc
        /\ \A a \in DOMAIN desc : \A s \in Slot :
                s \in desc[a] <=> (s \in DOMAIN banks /\ a \in anc[s])
        /\ \A a \in Slot \ DOMAIN desc :
                \A s \in DOMAIN banks : a \notin anc[s]
        /\ Mentioned(desc) \subseteq Slot

\* Root 0 with the children 1 and 2.
C8_Witness ==
    /\ DOMAIN banks = {0, 1, 2}
    /\ descendants[0] = {1, 2}
    /\ descendants[1] = {} /\ descendants[2] = {}
    /\ ancestors[1] = {0} /\ ancestors[0] = {}

\* ------------------------------------------------------------------------
\* Outstanding-request tracker: claims
\* ------------------------------------------------------------------------

\* The entries of a peer's node.
Entries(m, peer) == node_of(m, peer).requests

C10_LateOrInvalidRemoves ==
    [][call'.op = "register_response" =>
        LET p == call'.peer
            n == call'.nonce
        IN  IF n \in DOMAIN Entries(requests, p)
            THEN LET e == Entries(requests, p)[n]
                 IN  (now >= e.expire_timestamp
                        \/ ~verify_response(e.request, call'.response)) =>
                         /\ e.num_expected_responses > 0
                         /\ call'.result = FALSE
                         /\ call'.deleted
                         /\ Entries(requests', p) =
                                requests_remove(Entries(requests, p), n)
            ELSE call'.result = FALSE /\ ~call'.deleted]_vars

\* A response that verifies came at or after the expiry: it was refused and
\* its entry removed.
C10_Witness ==
    /\ call.op = "register_response" /\ ~call.result /\ call.deleted
    /\ call.response = 0
    /\ now >= DEFAULT_REQUEST_EXPIRATION_MS
    /\ call.nonce \notin DOMAIN Entries(requests, call.peer)

\* The nonce after n in the sequence 0, 1, ..., 2^32 - 2, 0, ...
NextNonce(n) == IF n = U32_MAX - 1 THEN U32_ZERO ELSE n + 1

\* C11: register_response with a nonce that has no entry for the peer
\* returns false and leaves every entry and every next nonce as they were,
\* whatever the response and the time.
C11_UnknownNonceChangesNothing ==
    [][(call'.op = "register_response"
            /\ call'.nonce \notin DOMAIN Entries(requests, call'.peer)) =>
        /\ call'.result = FALSE
        /\ requests' = requests]_vars

\* A response for a nonce without an entry was refused while the peer had an
\* entry under another nonce, at or after that entry's expiry.
C11_Witness ==
    /\ call.op = "register_response" /\ ~call.result /\ ~call.deleted
    /\ call.response = 0
    /\ call.nonce \notin DOMAIN Entries(requests, call.peer)
    /\ \E n \in DOMAIN Entries(requests, call.peer) :
            now >= Entries(requests, call.peer)[n].expire_timestamp

\* C12: add_request returns the peer's next nonce, which is 0 for a new peer,
\* and the next nonce follows it in 0, 1, ..., 2^32 - 2, 0, ...: 2^32 - 1 is
\* never a next nonce, so the increment stays within 32 bits; the entry made
\* under the nonce returned holds the request, its expected-response count
\* and the expiry now + 10000.
C12_NoncesSequential ==
    [][call'.op = "add_request" =>
        LET p == call'.peer
            n == call'.nonce
        IN  /\ n = node_of(requests, p).nonce
            /\ (p \notin DOMAIN requests => n = u32(0))
            /\ n # U32_MAX
            /\ node_of(requests', p).nonce = NextNonce(n)
            /\ node_of(requests', p).nonce # U32_MAX
            /\ n \in DOMAIN Entries(requests', p)
            /\ \E q \in Request :
                    Entries(requests', p)[n] =
                        [expire_timestamp |-> now + DEFAULT_REQUEST_EXPIRATION_MS,
                         num_expected_responses |-> q.expected,
                         request |-> q]]_vars

\* The request after the one given nonce 2^32 - 2 was given nonce 0.
C12_Witness ==
    /\ call.op = "add_request" /\ call.nonce = U32_ZERO
    /\ (U32_MAX - 1) \in DOMAIN Entries(requests, call.peer)
    /\ node_of(requests, call.peer).nonce = u32(1)

\* C13: add_request and register_response for a peer leave every other peer
\* as it was, with or without a node; register_response for a peer without a
\* node returns false and makes none.
C13_PeersIsolated ==
    [][call'.op \in {"add_request", "register_response"} =>
        /\ \A b \in Peer \ {call'.peer} :
                /\ (b \in DOMAIN requests') = (b \in DOMAIN requests)
                /\ node_of(requests', b) = node_of(requests, b)
        /\ (call'.op = "register_response" /\ call'.peer \notin DOMAIN requests) =>
                /\ call'.result = FALSE
                /\ requests' = requests]_vars

\* Both peers had a request under nonce 0; the response to the first peer's
\* removed that peer's entry and left the other peer's.
C13_Witness ==
    /\ call.op = "register_response" /\ call.result /\ call.deleted
    /\ call.nonce = u32(0)
    /\ \E b \in Peer \ {call.peer} :
            /\ b \in DOMAIN requests
            /\ u32(0) \in DOMAIN Entries(requests, b)
    /\ u32(0) \notin DOMAIN Entries(requests, call.peer)

\* ------------------------------------------------------------------------
\* Shred index and erasure status: claims
\* ------------------------------------------------------------------------

\* The shards of an erasure set that is_present reports: the data shards in
\* [set_index, set_index + num_data), the coding shards in
\* [set_index, set_index + num_coding).
DataPresent(m, idx) ==
    {i \in m.set_index..(m.set_index + m.config.num_data - 1) :
        is_present(idx.data, i)}

CodingPresent(m, idx) ==
    {i \in m.set_index..(m.set_index + m.config.num_coding - 1) :
        is_present(idx.coding, i)}

\* C14: status is DataFull when all num_data data shards of the set are
\* present, whatever coding shards are; otherwise CanRecover when present
\* data plus present coding reach num_data; otherwise StillNeed of what is
\* missing, which is never negative.
C14_StatusFromPresence ==
    \A m \in ErasureMetas :
        LET d == Cardinality(DataPresent(m, index))
            c == Cardinality(CodingPresent(m, index))
            n == m.config.num_data
        IN  /\ status(m, index) =
                    IF d = n THEN DataFull
                    ELSE IF d + c >= n THEN CanRecover
                    ELSE StillNeed(n - d - c)
            /\ status(m, index).needed >= 0

\* A set with data missing has more shards present than num_data: the
\* subtraction saturates and the status is CanRecover.
C14_Witness ==
    \E m \in ErasureMetas :
        /\ status(m, index) = CanRecover
        /\ Cardinality(DataPresent(m, index)) + Cardinality(CodingPresent(m, index))
                > m.config.num_data

\* The status the counts of the indices last set to true give.
StatusOfCounts(m, p) ==
    LET d == Cardinality({i \in p["data"] :
                /\ m.set_index <= i
                /\ i < m.set_index + m.config.num_data})
        c == Cardinality({i \in p["coding"] :
                /\ m.set_index <= i
                /\ i < m.set_index + m.config.num_coding})
        n == m.config.num_data
    IN  IF d >= n THEN DataFull
        ELSE IF d + c >= n THEN CanRecover
        ELSE StillNeed(n - d - c)

Rank(st) == CASE st.status = "StillNeed" -> 0
              [] st.status = "CanRecover" -> 1
              [] st.status = "DataFull" -> 2

\* C15: after every call the status of every erasure set is the one the
\* current counts give; set_present(_, true) does not raise the StillNeed
\* count nor turn CanRecover or DataFull into StillNeed; set_present(_, false)
\* does not lower the count nor move the status forward.
C15_StatusFollowsCounts ==
    [][\A m \in ErasureMetas :
        LET before == status(m, index)
            after == status(m, index')
        IN  /\ after = StatusOfCounts(m, present')
            /\ (index_call'.op = "set_present" /\ index_call'.presence) =>
                    /\ after.needed <= before.needed
                    /\ (before.status # "StillNeed" => after.status # "StillNeed")
            /\ (index_call'.op = "set_present" /\ ~index_call'.presence) =>
                    /\ after.needed >= before.needed
                    /\ Rank(after) <= Rank(before)]_vars

\* A data shard of a set was marked absent, and the set still needs shards
\* where with that shard it could recover.
C15_Witness ==
    /\ index_call.op = "set_present" /\ ~index_call.presence
    /\ index_call.which = "data"
    /\ \E m \in ErasureMetas :
            /\ m.set_index <= index_call.index
            /\ index_call.index < m.set_index + m.config.num_data
            /\ status(m, index).status = "StillNeed"
            /\ status(m, [index EXCEPT
                    !.data = set_present(@, index_call.index, TRUE)]) = CanRecover

C17_LengthNeverShrinks ==
    [][/\ \A w \in Which :
            bitvec_len(index'[w].index) >= bitvec_len(index[w].index)
       /\ index_call'.op = "set_present" =>
            bitvec_len(index'[index_call'.which].index) >= index_call'.index + 1]_vars

\* set_present(i, false) was called on a bitset that is longer than i + 1
\* and is still as long.
C17_Witness ==
    /\ index_call.op = "set_present" /\ ~index_call.presence
    /\ bitvec_len(index[index_call.which].index) > index_call.index + 1
    /\ ~is_present(index[index_call.which], index_call.index)

\* ------------------------------------------------------------------------
\* Slot meta: claims
\* ------------------------------------------------------------------------

\* C18: is_full returns true exactly when last_index is not std::u64::MAX
\* and consumed = last_index + 1: false for a meta fresh from new or
\* new_orphan, and false when consumed is above last_index + 1.
C18_FullIffConsumedAll ==
    [][meta_call'.op = "is_full" =>
        /\ meta_call'.result =
                (/\ slot_meta.last_index # U64_MAX
                 /\ slot_meta.consumed = slot_meta.last_index + 1)
        /\ meta_call.op \in {"new", "new_orphan", "clear_unconfirmed_slot"} =>
                ~meta_call'.result
        /\ (/\ slot_meta.last_index # U64_MAX
            /\ u64_gt(slot_meta.consumed, slot_meta.last_index + 1)) =>
                ~meta_call'.result /\ meta_call'.reported]_vars

\* is_full returned true for a meta whose last index is known and whose
\* shreds up to it are all consumed.
C18_Witness ==
    /\ meta_call.op = "is_full" /\ meta_call.result
    /\ slot_meta.last_index = 1 /\ slot_meta.consumed = 2

\* ------------------------------------------------------------------------
\* Transmit-shred cache: claims
\* ------------------------------------------------------------------------

\* The last n elements of a sequence.
Suffix(seq, n) == SubSeq(seq, Len(seq) - n + 1, Len(seq))

\* C19: the cache made for `capacity` slots holds the last `capacity` slots
\* that were given an entry, in the order they were given it, and no others:
\* after capacity + 1 slots exactly capacity are resident and the earliest
\* is gone; the eviction never fails; get on a resident slot and push to a
\* resident slot leave the order alone.
C19_FifoAtCapacity ==
    cache_call.op # "default" =>
        /\ cache_fault \notin {PopFault, RemoveFault}
        /\ cache_fault = "none" =>
            /\ insertion_order = Suffix(pushed, min(Len(pushed), capacity))
            /\ DOMAIN cache = {insertion_order[k] : k \in DOMAIN insertion_order}

homogeneous(batches, data) ==
    \A b \in DOMAIN batches : \A k \in DOMAIN batches[b] :
        batches[b][k].is_data = data

\* C21: over push and get, a slot is given an entry only by a batch of data
\* shreds that starts at index 0, never by a batch of coding shreds, and
\* every batch kept in an entry is of one type: data shreds in
\* data_shred_batches, coding shreds in coding_shred_batches.
C21_EntryOnlyFromFirstData ==
    [][cache_fault' = "none" =>
        /\ \A s \in DOMAIN cache' \ DOMAIN cache :
                /\ cache'[s].data_shred_batches # <<>>
                /\ cache'[s].data_shred_batches[1][1].is_data
                /\ cache'[s].data_shred_batches[1][1].index = 0
        /\ \A s \in DOMAIN cache' :
                /\ homogeneous(cache'[s].data_shred_batches, TRUE)
                /\ homogeneous(cache'[s].coding_shred_batches, FALSE)
      ]_vars

\* The shreds of a list of batches, in order.
RECURSIVE flatten(_)
flatten(batches) ==
    IF batches = <<>> THEN <<>> ELSE Head(batches) \o flatten(Tail(batches))

\* The data shreds stored at 0, 1, 2, ... up to the first index missing or
\* the first shred flagged last in slot, that shred included.
RECURSIVE DataRun(_, _)
DataRun(stored, i) ==
    IF i \notin DOMAIN stored THEN <<>>
    ELSE <<stored[i]>> \o (IF stored[i].last THEN <<>> ELSE DataRun(stored, i + 1))

\* The coding shreds stored at 0, 1, 2, ... up to the first index missing.
RECURSIVE CodingRun(_, _)
CodingRun(stored, i) ==
    IF i \notin DOMAIN stored THEN <<>>
    ELSE <<stored[i]>> \o CodingRun(stored, i + 1)

\* C22: get for a resident slot leaves the cache, the insertion order and
\* the entry as they were; get for a slot that is not resident, stakes being
\* known for the bank, ends without a panic with an entry for the slot that
\* holds the stakes, the data shreds read from storage (index 0 up to the
\* first missing index or the first shred flagged last in slot) as one data
\* batch and the coding shreds read (index 0 up to the first missing index)
\* as one coding batch, and no other shreds.
C22_GetHitOrReconstruct ==
    [][LET slot == cache_call'.slot
           stored == cache_call'.blockstore
       IN  /\ cache_call'.op = "get hit" =>
                /\ cache' = cache
                /\ insertion_order' = insertion_order
                /\ cache_fault' = "none"
           /\ (cache_call'.op = "get miss" /\ cache_call'.stakes # NoStakes) =>
                /\ cache_fault' = "none"
                /\ slot \in DOMAIN cache'
                /\ cache'[slot].stakes = cache_call'.stakes
                /\ Len(cache'[slot].data_shred_batches) <= 1
                /\ Len(cache'[slot].coding_shred_batches) <= 1
                /\ flatten(cache'[slot].data_shred_batches) = DataRun(stored.data, 0)
                /\ flatten(cache'[slot].coding_shred_batches) =
                        CodingRun(stored.coding, 0)
      ]_vars

\* The last element of a non-empty sequence.
Last(seq) == seq[Len(seq)]

\* C23: contains_all_shreds is true exactly when the last data batch of the
\* entry is not empty and its last shred is flagged last in slot, and the
\* last coding batch is not empty and its last shred is flagged last coding
\* in set; with no data batch or no coding batch it is false.
C23_ContainsAllShreds ==
    entry_call.op = "contains_all_shreds" =>
        LET d == entry.data_shred_batches
            c == entry.coding_shred_batches
        IN  /\ entry_call.result <=>
                    /\ d # <<>> /\ Last(d) # <<>> /\ Last(Last(d)).last
                    /\ c # <<>> /\ Last(c) # <<>> /\ Last(Last(c)).last
            /\ (d = <<>> \/ c = <<>>) => ~entry_call.result

\* contains_all_shreds was true of an entry with two batches of each type,
\* the first of the data batches empty.
C23_Witness ==
    /\ entry_call.op = "contains_all_shreds" /\ entry_call.result
    /\ Len(entry.data_shred_batches) = 2 /\ Len(entry.coding_shred_batches) = 2
    /\ entry.data_shred_batches[1] = <<>>

\* ------------------------------------------------------------------------
\* Window service: claims
\* ------------------------------------------------------------------------

\* Root monotonicity as the contract words it: a coding shred of a slot
\* below the root violates it, and so does a data shred of the root's slot
\* or with a parent below the root.
ViolatesRoot(a_shred, last_root) ==
    IF a_shred.is_data
    THEN a_shred.slot = last_root \/ a_shred.parent < last_root
    ELSE a_shred.slot < last_root

\* Root monotonicity with the first slot let in: a data shred violates it
\* when its parent is below the root, which every data shred of the root's
\* slot does but the shred of slot 0 with parent 0 while the root is 0.
ViolatesRootButSlot0(a_shred, last_root) ==
    IF a_shred.is_data
    THEN a_shred.parent < last_root
    ELSE a_shred.slot < last_root

\* What the filter is to answer, given what counts as a violation of the root.
FilterAnswers(c, violates) ==
    LET rejected == \/ c.leader = NoLeader
                    \/ c.leader = c.my_pubkey
                    \/ violates
                    \/ c.shred.version # c.shred_version
    IN  /\ rejected => ~c.result
        /\ (~rejected /\ c.shred.index < MAX_DATA_SHREDS_PER_SLOT) => c.result

C25_RejectsWrongSigner ==
    filter_call.op = "should_retransmit_and_persist" =>
        (filter_call.shred.signer # filter_call.leader => ~filter_call.result)

\* A packet that arrives live and holds a shred.
HoldsShred(p) == ~p.discard /\ p.data # Garbage

\* A packet whose shred the filter lets in.
Accepted(p, last_root) == HoldsShred(p) /\ shred_filter(p.data, last_root)

\* The shreds of the accepted packets of a sequence, in order.
RECURSIVE AcceptedShreds(_, _)
AcceptedShreds(ps, last_root) ==
    IF ps = <<>> THEN <<>>
    ELSE (IF Accepted(Head(ps), last_root) THEN <<Head(ps).data>> ELSE <<>>)
            \o AcceptedShreds(Tail(ps), last_root)

\* C26: after a wake-up of recv_window, a packet with a data shred whose
\* index is beyond the last index of a slot is passed to retransmit as
\* discarded, its shred is not among the shreds sent to insertion, and the
\* shred's slot is marked dead.
C26_OverMaxRejectedAndDead ==
    (recv_call.op = "recv_window" /\ recv_call.result = "Ok") =>
        LET received == concat(recv_call.packets)
            sent == concat(recv_call.retransmit)
        IN  \A k \in DOMAIN received :
                (/\ HoldsShred(received[k])
                 /\ received[k].data.is_data
                 /\ received[k].data.index >= MAX_DATA_SHREDS_PER_SLOT) =>
                    /\ sent[k].discard
                    /\ \A j \in DOMAIN recv_call.insert :
                            recv_call.insert[j] # received[k].data
                    /\ received[k].data.slot \in dead_slots

\* C27: after a wake-up of recv_window, the packets passed to retransmit
\* that are not discarded are those of accepted shreds, none of them holds a
\* coding shred or a shred of a slot the local node leads, and the shreds
\* sent to insertion are the accepted shreds.
C27_RetransmitAndInsert ==
    (recv_call.op = "recv_window" /\ recv_call.result = "Ok") =>
        LET received == concat(recv_call.packets)
            sent == concat(recv_call.retransmit)
        IN  /\ Len(sent) = Len(received)
            /\ \A k \in DOMAIN sent :
                    ~sent[k].discard =>
                        /\ Accepted(received[k], recv_call.root)
                        /\ sent[k].data = received[k].data
                        /\ sent[k].data.is_data
                        /\ slot_leader_at(WindowLeaders, sent[k].data.slot, "bank") # "me"
            /\ recv_call.insert = AcceptedShreds(received, recv_call.root)

\* A shred whose payload is not the payload held at its slot and index.
Collides(a_shred) ==
    /\ <<a_shred.slot, a_shred.index>> \in DOMAIN held_shreds
    /\ held_shreds[<<a_shred.slot, a_shred.index>>] # a_shred.payload

\* C28: after a run of the duplicate check that ends without an error, a
\* slot that had no duplicate proof and of which a colliding shred was
\* processed has one proof, made of the payload held and of the payload of
\* the first such shred, and has_duplicate_shreds_in_slot is true of it; a
\* slot that had a proof, or of which no colliding shred was processed, has
\* the proofs it had; no slot ever has more than one proof.
C28_OneProofPerSlot ==
    [][(dup_call'.op = "run_check_duplicate" /\ dup_call'.result = "Ok") =>
        LET processed == dup_call'.processed
            colliding(s) == {k \in DOMAIN processed :
                                processed[k].slot = s /\ Collides(processed[k])}
            first(s) == processed[CHOOSE k \in colliding(s) :
                                    \A j \in colliding(s) : k <= j]
        IN  \A s \in DupSlot :
                /\ Len(duplicate_slots'[s]) <= 1
                /\ IF duplicate_slots[s] = <<>> /\ colliding(s) # {}
                   THEN /\ duplicate_slots'[s] =
                                <<[shred1 |-> held_shreds[<<s, first(s).index>>],
                                   shred2 |-> first(s).payload]>>
                        /\ has_duplicate_shreds_in_slot(duplicate_slots', s)
                   ELSE duplicate_slots'[s] = duplicate_slots[s]
      ]_vars

\* A run took two colliding shreds of a slot without a proof, and the slot
\* has one proof.
C28_Witness ==
    /\ dup_call.op = "run_check_duplicate" /\ dup_call.result = "Ok"
    /\ Len(dup_call.processed) = 2
    /\ \A k \in {1, 2} : dup_call.processed[k].slot = 1 /\ Collides(dup_call.processed[k])
    /\ Len(duplicate_slots[1]) = 1
    /\ duplicate_slots[0] = <<>>

\* C29: in each of the three worker loops, a step that meets Disconnected on
\* the worker's input channel ends the worker; a step that meets Timeout
\* leaves it at the top of its loop with no error counted; a step that meets
\* another error (the send to the insert channel, the blockstore during
\* insertion or while storing a duplicate proof) counts the error and leaves
\* the worker at the top of its loop, the batch at hand given up.
C29_ErrorsOfTheLoops ==
    [][\A w \in Worker :
          worker_event'.worker = w =>
            /\ worker_event'.outcome = "Disconnected" =>
                    /\ pc[w] = "recv"
                    /\ pc'[w] = "done"
            /\ worker_event'.outcome = "Timeout" =>
                    /\ pc'[w] = "loop"
                    /\ ~worker_event'.counted
                    /\ in_channel' = in_channel
            /\ worker_event'.outcome \in {"SendError", "BlockstoreError"} =>
                    /\ worker_event'.counted
                    /\ pc'[w] = "loop"
            /\ pc'[w] = "done" =>
                    worker_event'.outcome \in {"Disconnected", "exit"}
      ]_vars

\* The insertion failed on a batch while the next batch was waiting in the
\* insert channel: the error is counted and the insert worker is at the top
\* of its loop, the exit flag not set.
C29_Witness ==
    /\ worker_event = [worker |-> "insert", outcome |-> "BlockstoreError",
                       counted |-> TRUE]
    /\ pc["insert"] = "loop"
    /\ in_channel["insert"] > 0
    /\ ~exit_flag

\* C30: once the exit flag is set, the three workers all end, whatever
\* their input channels hold or go on receiving.
C30_ExitLeadsToTermination ==
    exit_flag ~> (\A w \in Worker : pc[w] = "done")

\* ------------------------------------------------------------------------
\* Fork manager: the root after set_root
\* ------------------------------------------------------------------------

\* C32: after set_root(R) returns, the node of R is still live: get(R) gives
\* the node R had, squashed, root() is R, and R is not among the nodes the
\* call pruned.
C32_RootStaysLive ==
    [][(op' = "set_root" /\ fault = "none" /\ fault' = "none") =>
        /\ root' \in DOMAIN banks'
        /\ banks'[root'] = squash(banks, root')[root']
        /\ root' \notin DOMAIN banks \ DOMAIN banks']_vars

\* ------------------------------------------------------------------------
\* Transmit-shred cache: the map and the queue
\* ------------------------------------------------------------------------

\* The elements of a sequence.
Range(seq) == {seq[k] : k \in DOMAIN seq}

\* No element is twice in the sequence.
NoRepeat(seq) == \A j, k \in DOMAIN seq : seq[j] = seq[k] => j = k

\* C37: after any pushes and gets on a cache of any capacity, the slots of
\* the map are the slots of the insertion-order queue, the queue holds no
\* slot twice, and the eviction of push never fails: pop_front finds a slot
\* and remove finds that slot in the map.
C37_MapMatchesQueue ==
    /\ cache_fault \notin {PopFault, RemoveFault}
    /\ cache_fault = "none" =>
        /\ DOMAIN cache = Range(insertion_order)
        /\ NoRepeat(insertion_order)

\* C38: a get that misses ends, whatever storage holds for the slot and
\* whether or not a stake map is known, with an entry for the slot resident
\* in the cache.
C38_MissLeavesEntry ==
    [][cache_call'.op = "get miss" =>
        /\ cache_fault' = "none"
        /\ cache_call'.slot \in DOMAIN cache']_vars

\* ------------------------------------------------------------------------
\* Outstanding requests of one peer: claims
\* ------------------------------------------------------------------------

\* C36: for each request given to add_request, register_response returns
\* true at most num_expected_responses times in all, whatever the responses
\* and the timestamps, and never for a request that expects no response nor
\* for a nonce no request was given.
C36_TrueAtMostExpected ==
    \A n \in DOMAIN answered :
        answered[n].trues <= num_expected_responses(answered[n].request)

\* A request that expects MaxExpected responses got them all, and one more
\* response came for its nonce and was refused; another request expects none
\* or is still waiting.
C36_Witness ==
    /\ node_call.op = "register_response" /\ ~node_call.result
    /\ node_call.nonce \in DOMAIN answered
    /\ answered[node_call.nonce].trues = MaxExpected
    /\ answered[node_call.nonce].request.expected = MaxExpected

\* ------------------------------------------------------------------------
\* Window service: the shred at the last index of a slot
\* ------------------------------------------------------------------------

\* The accepted packets of a wake-up whose shred is at the last index a slot
\* can have, or beyond it.
OnBoundary(received, last_root) ==
    {k \in DOMAIN received :
        /\ Accepted(received[k], last_root)
        /\ received[k].data.index >= MAX_DATA_SHREDS_PER_SLOT - 1}

C33_AcceptedReachStorageInOrder ==
    [][/\ pipeline_call'.op = "recv_window" =>
            LET received == concat(pipeline_call'.packets)
                sent == concat(pipeline_call'.retransmit)
                ok == AcceptedShreds(received, pipeline_call'.root)
            IN  /\ pipeline_call'.result = "Ok" =>
                        insert_queue' = Append(insert_queue, ok)
                /\ insert_calls' = insert_calls
                /\ Len(sent) = Len(received)
                /\ \A k \in DOMAIN received :
                        ~Accepted(received[k], pipeline_call'.root) =>
                            sent[k].discard
       /\ pipeline_call'.op = "run_insert" =>
            /\ insert_calls' = Append(insert_calls, flatten(insert_queue))
            /\ insert_queue' = <<>>
       /\ (~send_failed /\ ~send_failed') =>
            flatten(insert_calls') \o flatten(insert_queue')
                = flatten(insert_calls) \o flatten(insert_queue)
                    \o (IF pipeline_call'.op = "recv_window"
                        THEN AcceptedShreds(concat(pipeline_call'.packets),
                                            pipeline_call'.root)
                        ELSE <<>>)
      ]_vars

\* Two wake-ups of recv_window sent an accepted shred each, of different
\* indices, and one wake-up of run_insert passed both to storage in that
\* order.
C33_Witness ==
    /\ pipeline_call.op = "run_insert" /\ ~send_failed
    /\ Len(insert_calls) = 1
    /\ Len(insert_calls[1]) = 2
    /\ insert_calls[1][1].index = MAX_DATA_SHREDS_PER_SLOT - 1
    /\ insert_calls[1][2].index = 0
    /\ wakeups = 2

\* ------------------------------------------------------------------------
\* Window service: the end of the window thread
\* ------------------------------------------------------------------------

\* C35: when the window thread has ended, whether it saw the exit flag, met
\* Disconnected on its input channel or panicked, the exit flag is set, and
\* the insert worker and the duplicate-check worker end after it, so that a
\* join of the three threads completes.
C35_WindowEndStopsTheService ==
    /\ [](pc["window"] = "done" => exit_flag)
    /\ (pc["window"] = "done") ~> (\A w \in Worker : pc[w] = "done")

\* The window thread has just panicked with the flag not set before; the
\* flag is set now, the two other workers are still running and the insert
\* worker has a batch to take.
C35_Witness ==
    /\ worker_event.worker = "window" /\ worker_event.outcome = "panic"
    /\ exit_flag
    /\ pc["insert"] \notin {"done", "loop"}
    /\ pc["check_duplicate"] # "done"
    /\ in_channel["insert"] > 0

\* ------------------------------------------------------------------------
\* Entry-verify worker: claims
\* ------------------------------------------------------------------------

present_set(si) == {i \in 0..(MaxIndex + 2) : is_present(si, i)}

\* C40: an Index2 turned into an Index and back (to_index then to_index2)
\* keeps its slot and, for the data and for the coding index, the set of the
\* present indices and num_shreds; an Index turned into an Index2 and back
\* is the same Index, and the Index2 in between reports the indices of the
\* set as present and their number as num_shreds.
C40_RoundTripKeepsPresentAndCount ==
    /\ LET back == to_index2(to_index(stored_index2))
       IN  /\ back.slot = stored_index2.slot
           /\ \A w \in Which :
                /\ present_set(back[w]) = present_set(stored_index2[w])
                /\ num_shreds(back[w]) = num_shreds(stored_index2[w])
                /\ to_shred_index(stored_index2[w]).index = present_set(stored_index2[w])
    /\ LET there == to_index2(legacy_index)
       IN  /\ to_index(there) = legacy_index
           /\ \A w \in Which :
                /\ present_set(there[w]) = legacy_index[w].index
                /\ num_shreds(there[w]) = Cardinality(legacy_index[w].index)

\* The Index2 came from an Index by to_index2; since then an index was
\* cleared, so that the bitset ends in unset bits and is longer than the one
\* the round trip gives, and index 0 is present in the data index.
C40_Witness ==
    /\ convert_call.op = "set_present"
    /\ legacy_index.data.index = {0, MaxIndex}
    /\ legacy_index.coding.index # {}
    /\ present_set(stored_index2.data) = {0}
    /\ bitvec_len(stored_index2.data.index) = MaxIndex + 1
    /\ bitvec_len(to_index2(to_index(stored_index2)).data.index) = 1
    /\ present_set(stored_index2.coding) = legacy_index.coding.index

\* load_from_snapshot was the last snapshot call.
LoadCalled == snapshot_call.op = "load_from_snapshot"

\* The largest slot of a non-empty set.
highest(set) == CHOOSE s \in set : \A t \in set : t <= s

\* The fork manager fm has the nodes saved and no other, each as it was saved
\* and entered under its own slot, and the one of the highest slot as its
\* working node.
LoadedIs(fm, nodes) ==
    /\ DOMAIN fm.banks = DOMAIN nodes
    /\ fm.slots = DOMAIN nodes
    /\ \A s \in DOMAIN nodes : fm.banks[s] = nodes[s].bank /\ fm.banks[s].slot = s
    /\ nodes # <<>>
    /\ fm.working_bank = nodes[highest(DOMAIN nodes)].bank
    /\ fm.use_snapshot

====
